---- MODULE Spec2Model ----
(***************************************************************************)
(* Dynamic CAV-dedicated-lane controller (DDCL).                           *)
(*                                                                         *)
(* Part I   LaneManager (V1.6 controller/controllers/lane_manager.py):     *)
(*          the (r, n, m) partition of the control segments, the HML /     *)
(*          CDL / HCL lane sets, the clearance map and the lane            *)
(*          permissions held by the engine.                                *)
(* Part II  VehicleController (V1.6 and V4 vehicle_controller.py): the     *)
(*          per-tick arbitration of the vehicles on controlled lanes.      *)
(***************************************************************************)
EXTENDS Integers, FiniteSets, Sequences, TLC

VARIABLES
    current_m,          \* LaneManager.current_m
    current_n,          \* LaneManager.current_n
    current_r,          \* LaneManager.current_r
    hml_lanes,          \* LaneManager.hml_lanes
    cdl_lanes,          \* LaneManager.cdl_lanes
    hcl_lanes,          \* LaneManager.hcl_lanes
    middle_lanes,       \* LaneManager.middle_lanes
    hcl_clearance_map,  \* LaneManager.hcl_clearance_map (lane id -> edge id)
    allowed,            \* engine: lane id -> set of vehicle classes allowed
    veh_lane,           \* engine: vehicle id -> the lane it is on
    last_op,            \* the LaneManager call just made
    veh_kin,            \* engine: vehicle id -> lane position, speed, allowed
                        \* speed, phase
    sim_results,        \* engine: traci.simulation.getSubscriptionResults()
    lane_change_mode,   \* engine: vehicle id -> mode set by setLaneChangeMode
    lc_commands,        \* engine: changeLane calls received since its last step
    accel_commands,     \* engine: setAcceleration calls received since then
    subscribed_vehicles,        \* VehicleController.subscribed_vehicles
    controlled_veh_ids,         \* VehicleController.controlled_veh_ids
    cav_dissatisfaction_memory, \* VehicleController.cav_dissatisfaction_memory
    cav_cdl_distance_memory,    \* VehicleController.cav_cdl_distance_memory
    cooperation_cooldowns,      \* VehicleController.cooperation_cooldowns
    pc,                 \* position in the run loop of main.py
    version,            \* the controller variant whose motivation is evaluated
    mot_out,            \* the last result of _get_lane_change_motivation
    mot_count,          \* evaluations of _get_lane_change_motivation so far
    ttc_args,           \* the two state tuples calculate_2d_ttc is called with
    ttc_result,         \* what that call of calculate_2d_ttc returned
    coop_call,          \* the gaps and the all_veh_data a direct call of
                        \* attempt_lane_change_cooperation is made with
    gate_obs,           \* per tick and controlled vehicle, what the engine
                        \* observations make manage_dcdl_lane_changing find
    gate_runs,          \* two runs of the controller over gate_obs: ticks
                        \* made, samples drawn, and what each tick did
    apply_pair,         \* two consecutive calls of apply_lane_strategy:
                        \* their request, the lanes step() took out of
                        \* hcl_lanes between them, and the HCL lanes the
                        \* second call found with an HV on them
    nbr_out,            \* a direct call of _get_target_neighbors: its
                        \* arguments and what it returned
    rew_acc,            \* RewardCalculator: cumulative_speed,
                        \* vehicle_speed_samples, total_vehicle_distance
    rew_out,            \* the terms and the value of the last calculate_reward
    connection,         \* the TraCI connection: "up", "lost" or "closed"
    run_log,            \* TraCI errors raised, calls made after the first one,
                        \* and traci.close() calls of the run
    env_clock           \* DCDLEnv: step() calls begun, iterations made in the
                        \* current one, DCDLEnv.current_step

laneVars == <<current_m, current_n, current_r, hml_lanes, cdl_lanes, hcl_lanes,
              middle_lanes, hcl_clearance_map, allowed, last_op>>

engineVars == <<veh_kin, sim_results, lane_change_mode, lc_commands,
                accel_commands>>

ctlVars == <<subscribed_vehicles, controlled_veh_ids,
             cav_dissatisfaction_memory, cav_cdl_distance_memory,
             cooperation_cooldowns>>

evalVars == <<version, mot_out, mot_count, ttc_args, ttc_result, coop_call,
              gate_obs, gate_runs, nbr_out, rew_acc, rew_out, apply_pair>>

runVars == <<connection, run_log, env_clock>>

motVars == <<evalVars, runVars>>

vars == <<laneVars, veh_lane, engineVars, ctlVars, pc, motVars>>

----------------------------------------------------------------------------
(* Program constants *)

\* len(CONTROL_EDGES): the ten control segments "2" .. "11"
TOTAL_SCL_COUNT == 10
\* CONTROLLED_LANE_INDEX
LANE_INDEX == 0
\* MIDDLE_LANE_INDEX
ML_INDEX == 1
\* lanes per control segment (traci.edge.getLaneNumber)
LaneNumber == 3

VCLASS_HV == "custom1"
VCLASS_CAV == "custom2"
ALL_VCLASSES == {VCLASS_HV, VCLASS_CAV}

(* Bounds of the model *)

\* largest m or n requested (the action space ends at TOTAL_SCL_COUNT; one
\* more makes a single argument over budget on its own)
MaxReq == 11
\* by how much m + n of a request exceeds TOTAL_SCL_COUNT at most
MaxOver == 1
\* most negative m or n handed to apply_lane_strategy in SpecLaneInt
NegReq == 1

----------------------------------------------------------------------------
(* Helpers *)

Min(a, b) == IF a <= b THEN a ELSE b
Max(a, b) == IF a >= b THEN a ELSE b

\* SCL_EDGES[i] for 0 <= i < TOTAL: the edge ids "2", "3", ..., "11"
SCL_EDGES == [i \in 0..(TOTAL_SCL_COUNT - 1) |-> i + 2]

\* f"{edge_id}_{i}"
LaneId(edge_id, i) == <<edge_id, i>>

\* every lane of every control segment
AllLanes == {LaneId(SCL_EDGES[i], k) : i \in 0..(TOTAL_SCL_COUNT - 1),
                                       k \in 0..(LaneNumber - 1)}

\* the controlled lane of segment index i, f"{SCL_EDGES[i]}_{LANE_INDEX}",
\* with the list indexing of the language: a negative i counts from the end
PyIndexOk(i) == -TOTAL_SCL_COUNT <= i /\ i < TOTAL_SCL_COUNT
PyIndex(i) == IF i < 0 THEN i + TOTAL_SCL_COUNT ELSE i
ControlledLane(i) == LaneId(SCL_EDGES[PyIndex(i)], LANE_INDEX)

ControlledLanes == {ControlledLane(i) : i \in 0..(TOTAL_SCL_COUNT - 1)}

\* the vehicles of the engine, and the vehicle class of each
\* (traci.vehicle.getVehicleClass)
Vehicles == {"hv_1", "hv_2", "cav_1"}
VehicleClass == [v \in Vehicles |-> IF v = "cav_1" THEN VCLASS_CAV ELSE VCLASS_HV]
\* the lane of a vehicle that is not in the simulation
NoLane == <<0, 0>>

\* the indices a loop "for i in range(a, b): ... SCL_EDGES[i]" gets through
\* before the first IndexError, and whether it raises one
LoopDone(a, b) == {i \in a..(b - 1) : \A j \in a..i : PyIndexOk(j)}
LoopRaises(a, b) == \E i \in a..(b - 1) : ~PyIndexOk(i)

----------------------------------------------------------------------------
(* LaneManager *)

\* initialize_permissions: every lane of every segment open to both classes
InitializePermissions == [l \in AllLanes |-> ALL_VCLASSES]

\* initialize_permissions: the lanes with index ML_INDEX
MiddleLanes == {LaneId(SCL_EDGES[i], ML_INDEX) : i \in 0..(TOTAL_SCL_COUNT - 1)}

\* variants of the operators below, each with one step of the code left out
CdlStartIndexAtR(new_r, new_n) == new_r
ClampNNone(m, n) == n
HclEndShort(last_hml_end) == last_hml_end - 1
HclEndTotal(last_hml_end) == TOTAL_SCL_COUNT
CdlAllowedAll == ALL_VCLASSES
HasHVNever(lane) == FALSE
HasHVAlways(lane) == TRUE
ResetKeepsHcl ==
    /\ allowed' = InitializePermissions
    /\ middle_lanes' = MiddleLanes
    /\ current_m' = 0
    /\ current_n' = 0
    /\ current_r' = TOTAL_SCL_COUNT
    /\ hml_lanes' = {}
    /\ cdl_lanes' = {}
    /\ last_op' = [op |-> "reset", m |-> 0, n |-> 0, raised |-> FALSE,
                   cleared |-> FALSE]
    /\ UNCHANGED <<hcl_lanes, hcl_clearance_map, veh_lane>>

\* apply_lane_strategy, step 1: the over-budget correction of m and n
ClampM(m, n) == IF m + n > TOTAL_SCL_COUNT THEN Min(m, TOTAL_SCL_COUNT) ELSE m
ClampN(m, n) ==
    IF m + n > TOTAL_SCL_COUNT THEN Min(n, TOTAL_SCL_COUNT - ClampM(m, n)) ELSE n

NewR(new_m, new_n) == TOTAL_SCL_COUNT - new_m - new_n
HmlStartIndex(new_r, new_n) == new_r
CdlStartIndex(new_r, new_n) == new_r + new_n

\* the class list written on a CDL (and HCL) lane
CdlAllowed == {VCLASS_CAV}
\* the class list written on an HML lane
HmlAllowed == ALL_VCLASSES

\* apply_lane_strategy, step 5: the index range scanned for HCL lanes
HclStart(last_hml_start, cdl_start_index) == Max(last_hml_start, cdl_start_index)
HclEnd(last_hml_end) == Min(last_hml_end, TOTAL_SCL_COUNT)

\* the lane permissions after the setAllowed calls of apply_lane_strategy, in
\* the order made: initialize_permissions, the HML loop, the CDL loop, the HCL
\* loop (a later call overwrites an earlier one)
PermissionsAfter(hml1, cdl1, hcl1) ==
    [l \in AllLanes |->
        IF l \in hcl1 THEN CdlAllowed
        ELSE IF l \in cdl1 THEN CdlAllowed
        ELSE IF l \in hml1 THEN HmlAllowed
        ELSE InitializePermissions[l]]

\* the lanes one of the loops of apply_lane_strategy adds before it ends
LoopLanes(a, b) == {ControlledLane(i) : i \in LoopDone(a, b)}

\* the whole of apply_lane_strategy(m, n); an IndexError in one of its three
\* loops ends the call there, with the fields as they are at that point
apply_lane_strategy(m, n) ==
    \E new_m \in {ClampM(m, n)}, new_n \in {ClampN(m, n)} :
    \E new_r \in {NewR(new_m, new_n)} :
    \E hml_start_index \in {HmlStartIndex(new_r, new_n)},
       cdl_start_index \in {CdlStartIndex(new_r, new_n)},
       last_hml_start \in {current_r},
       last_hml_end \in {current_r + current_n} :
    \* 3. HML
    \E hml1 \in {LoopLanes(hml_start_index, cdl_start_index)},
       hmlErr \in {LoopRaises(hml_start_index, cdl_start_index)} :
    \* 4. CDL
    \E cdl1 \in {IF hmlErr THEN {} ELSE LoopLanes(cdl_start_index, TOTAL_SCL_COUNT)},
       cdlErr \in {~hmlErr /\ LoopRaises(cdl_start_index, TOTAL_SCL_COUNT)} :
    \* 5. HCL
    \E hcl_start \in {HclStart(last_hml_start, cdl_start_index)},
       hcl_end \in {HclEnd(last_hml_end)},
       reached5 \in {~hmlErr /\ ~cdlErr} :
    \E hcl1 \in {IF reached5
                 THEN {l \in LoopLanes(hcl_start, hcl_end) : l \in cdl1}
                 ELSE {}},
       hclErr \in {reached5 /\ LoopRaises(hcl_start, hcl_end)} :
    \E raised \in {hmlErr \/ cdlErr \/ hclErr} :
    /\ allowed' = PermissionsAfter(hml1, cdl1, hcl1)
    /\ middle_lanes' = MiddleLanes
    /\ hml_lanes' = hml1
    /\ cdl_lanes' = cdl1
    /\ hcl_lanes' = IF reached5 THEN hcl1 ELSE hcl_lanes
    /\ hcl_clearance_map' = IF reached5 THEN [l \in hcl1 |-> l[1]]
                                        ELSE hcl_clearance_map
    \* 6.
    /\ current_m' = IF raised THEN current_m ELSE new_m
    /\ current_n' = IF raised THEN current_n ELSE new_n
    /\ current_r' = IF raised THEN current_r ELSE new_r
    /\ last_op' = [op |-> "apply", m |-> m, n |-> n, raised |-> raised,
                   cleared |-> FALSE]
    /\ UNCHANGED veh_lane

\* traci.lane.getLastStepVehicleIDs(lane)
LastStepVehicleIDs(lane) == {v \in Vehicles : veh_lane[v] = lane}

\* step: has_hv for one HCL lane
HasHV(lane) ==
    \E veh_id \in LastStepVehicleIDs(lane) : VehicleClass[veh_id] = VCLASS_HV

\* step: cleared_lanes
ClearedLanes == {l \in hcl_lanes : ~HasHV(l)}

\* variant: the cleared lanes are taken out of the dedicated zone as well
stepLeavingZone ==
    /\ hcl_lanes' = hcl_lanes \ ClearedLanes
    /\ hcl_clearance_map' =
         [l \in (DOMAIN hcl_clearance_map) \ ClearedLanes |-> hcl_clearance_map[l]]
    /\ cdl_lanes' = cdl_lanes \ ClearedLanes
    /\ last_op' = [op |-> "step", m |-> 0, n |-> 0, raised |-> FALSE,
                   cleared |-> ClearedLanes # {}]
    /\ UNCHANGED <<current_m, current_n, current_r, hml_lanes,
                   middle_lanes, allowed, veh_lane>>

\* variant: the entries of the cleared lanes stay in hcl_clearance_map
stepKeepingMap ==
    /\ hcl_lanes' = hcl_lanes \ ClearedLanes
    /\ last_op' = [op |-> "step", m |-> 0, n |-> 0, raised |-> FALSE,
                   cleared |-> ClearedLanes # {}]
    /\ UNCHANGED <<current_m, current_n, current_r, hml_lanes, cdl_lanes,
                   middle_lanes, hcl_clearance_map, allowed, veh_lane>>

\* variant: a CDL lane an HV stands on is taken into hcl_lanes again
stepRescanning ==
    /\ hcl_lanes' = (hcl_lanes \ ClearedLanes) \cup {l \in cdl_lanes : HasHV(l)}
    /\ hcl_clearance_map' =
         [l \in (DOMAIN hcl_clearance_map) \ ClearedLanes |-> hcl_clearance_map[l]]
    /\ last_op' = [op |-> "step", m |-> 0, n |-> 0, raised |-> FALSE,
                   cleared |-> ClearedLanes # {}]
    /\ UNCHANGED <<current_m, current_n, current_r, hml_lanes, cdl_lanes,
                   middle_lanes, allowed, veh_lane>>

step ==
    /\ hcl_lanes' = hcl_lanes \ ClearedLanes
    /\ hcl_clearance_map' =
         [l \in (DOMAIN hcl_clearance_map) \ ClearedLanes |-> hcl_clearance_map[l]]
    /\ last_op' = [op |-> "step", m |-> 0, n |-> 0, raised |-> FALSE,
                   cleared |-> ClearedLanes # {}]
    /\ UNCHANGED <<current_m, current_n, current_r, hml_lanes, cdl_lanes,
                   middle_lanes, allowed, veh_lane>>

reset_to_mixed_traffic ==
    /\ allowed' = InitializePermissions
    /\ middle_lanes' = MiddleLanes
    /\ current_m' = 0
    /\ current_n' = 0
    /\ current_r' = TOTAL_SCL_COUNT
    /\ hml_lanes' = {}
    /\ cdl_lanes' = {}
    /\ hcl_lanes' = {}
    /\ hcl_clearance_map' = <<>>
    /\ last_op' = [op |-> "reset", m |-> 0, n |-> 0, raised |-> FALSE,
                   cleared |-> FALSE]
    /\ UNCHANGED veh_lane

\* LaneManager.get_cdl_start_edge; NoEdge for None
NoEdge == 0
get_cdl_start_edge ==
    IF current_m > 0 /\ current_r + current_n < TOTAL_SCL_COUNT
        /\ PyIndexOk(current_r + current_n)
    THEN SCL_EDGES[PyIndex(current_r + current_n)]
    ELSE NoEdge

----------------------------------------------------------------------------
(* Numbers.  Lengths are in decimetres, speeds in decimetres per second,    *)
(* times in seconds.  A real number is a fraction <<numerator,              *)
(* denominator>> in lowest terms with a positive denominator; float('inf')  *)
(* is <<1, 0>>.                                                             *)

RECURSIVE GCD(_, _)
GCD(a, b) == IF b = 0 THEN a ELSE GCD(b, a % b)

Abs(x) == IF x < 0 THEN -x ELSE x

Reduce(n, d, g) == IF d < 0 THEN <<(-n) \div g, (-d) \div g>>
                              ELSE <<n \div g, d \div g>>
Frac(n, d) == IF d = 0 THEN <<1, 0>> ELSE Reduce(n, d, GCD(Abs(n), Abs(d)))

Inf == <<1, 0>>
Zero == <<0, 1>>
One == <<1, 1>>
Num(n) == <<n, 1>>

RAdd(a, b) == Frac(a[1] * b[2] + b[1] * a[2], a[2] * b[2])
RSub(a, b) == Frac(a[1] * b[2] - b[1] * a[2], a[2] * b[2])
RMul(a, b) == Frac(a[1] * b[1], a[2] * b[2])
RDiv(a, b) == Frac(a[1] * b[2], a[2] * b[1])
RLt(a, b) == a[1] * b[2] < b[1] * a[2]
RLe(a, b) == a[1] * b[2] <= b[1] * a[2]
RMin(a, b) == IF RLe(a, b) THEN a ELSE b
RMax(a, b) == IF RLe(b, a) THEN a ELSE b

\* metres -> decimetres
Dm(x) == 10 * x

\* dict.get(key, default), and dict[key] = value
Get(dict, key, default) == IF key \in DOMAIN dict THEN dict[key] ELSE default
Put(dict, key, value) ==
    [k \in (DOMAIN dict) \cup {key} |-> IF k = key THEN value ELSE dict[k]]
Without(dict, keys) == [k \in (DOMAIN dict) \ keys |-> dict[k]]

\* str.startswith, on a string given as the sequence of its characters
StartsWith(str, prefix) ==
    Len(str) >= Len(prefix) /\ SubSeq(str, 1, Len(prefix)) = prefix

----------------------------------------------------------------------------
(* Configuration (controller/config.py) and module constants of             *)
(* vehicle_controller.py                                                    *)

_LC_DIR_LEFT == 1
_SUMO_DEFAULT_LC_MODE == 1621
_TRACI_LC_MODE == 256
_TTC_HML_FLEXIBLE_THRESHOLD == 5
_COOP_COOLDOWN_STEPS == 10
TTC_2D_THRESHOLD_S == 5
CUMULATIVE_DISSATISFACTION_S == 4
SPEED_DIFF_THRESHOLD_MS == 3
STOPPING_DISTANCE_THRESHOLD_M == 250
SCL_LENGTH_M == 200
\* 0.1 s, 1.21 s and 120 / 3.6 m/s
SIM_STEP_S == Frac(1, 10)
HV_BRAKE_REACTION_TIME_S == Frac(121, 100)
DESIGN_SPEED_MS == Frac(Dm(120) * 10, 36)

----------------------------------------------------------------------------
(* The engine as the VehicleController reads it *)

\* a vehicle id that is None
NoVeh == "None"

\* the type ids of the route file: "hv..." and "cav..."
HvTypeId == <<"h", "v">>
CavTypeId == <<"c", "a", "v">>
VehicleTypeId == [v \in Vehicles |-> IF v = "cav_1" THEN CavTypeId ELSE HvTypeId]

\* _cache_vtype_parameters: what traci.vehicletype reports for each type id
\* (length, width, minGap in dm; accel, decel in dm/s^2; tau in s)
vtype_cache ==
    [t \in {HvTypeId, CavTypeId} |->
        [length |-> 50, width |-> 18, accel |-> 26, decel |-> 45,
         tau |-> One, minGap |-> 25]]

\* the road: straight, heading east (TraCI angle 90), every control segment
\* SCL_LENGTH_M long, lanes 3.2 m wide, speed limit 30 m/s
Network == [edge_length |-> Dm(SCL_LENGTH_M), lane_width |-> 32,
            angle |-> 90, allowed_speed |-> 300, leader_range |-> 10000]

\* edge_to_order: {edge_id: i for i, edge_id in enumerate(CONTROL_EDGE_IDS)}
edge_to_order ==
    [e \in {SCL_EDGES[i] : i \in 0..(TOTAL_SCL_COUNT - 1)} |->
        CHOOSE i \in 0..(TOTAL_SCL_COUNT - 1) : SCL_EDGES[i] = e]

\* edge_lengths.get(edge_id, 1000.0)
edge_lengths(edge_id) ==
    IF edge_id \in DOMAIN edge_to_order THEN Network.edge_length ELSE Dm(1000)

\* whether the vehicle is in the simulation
InSimulation(v) == veh_lane[v] # NoLane

\* tc.VAR_POSITION of a vehicle on the given lane at the given lane position
PositionX(lane, pos) == (lane[1] - SCL_EDGES[0]) * Network.edge_length + pos
PositionY(lane) == lane[2] * Network.lane_width

\* tc.VAR_LEADER (subscribeLeader): the next vehicle ahead on the same lane
\* index within the range, with the gap to it; NoLeader for None
NoLeader == <<NoVeh, 0>>
\* the vehicles ahead of abscissa x on the lanes with index k, within range
Ahead(v, x, k) ==
    {u \in Vehicles \ {v} :
        /\ InSimulation(u)
        /\ veh_lane[u][2] = k
        /\ PositionX(veh_lane[u], veh_kin[u].pos) > x
        /\ PositionX(veh_lane[u], veh_kin[u].pos) - x <= Network.leader_range}
\* the nearest of them, with the gap: bumper to bumper less the minGap
LeaderAmong(v, x, ahead) ==
    IF ahead = {} THEN NoLeader
    ELSE LET u == CHOOSE u \in ahead : \A w \in ahead :
                      PositionX(veh_lane[u], veh_kin[u].pos)
                         <= PositionX(veh_lane[w], veh_kin[w].pos)
         IN  <<u, PositionX(veh_lane[u], veh_kin[u].pos) - x
                  - vtype_cache[VehicleTypeId[u]].length
                  - vtype_cache[VehicleTypeId[v]].minGap>>
LeaderFrom(v, x) == LeaderAmong(v, x, Ahead(v, x, veh_lane[v][2]))
Leader(v) == LeaderFrom(v, PositionX(veh_lane[v], veh_kin[v].pos))

\* the subscription result of one vehicle (VARS_TO_SUBSCRIBE and the leader)
SubscriptionData(v) ==
    [VAR_TYPE |-> VehicleTypeId[v],
     VAR_LANE_ID |-> veh_lane[v],
     VAR_ROAD_ID |-> veh_lane[v][1],
     VAR_LANE_INDEX |-> veh_lane[v][2],
     VAR_LANEPOSITION |-> veh_kin[v].pos,
     VAR_SPEED |-> veh_kin[v].speed,
     VAR_ALLOWED_SPEED |-> veh_kin[v].allowed,
     VAR_POSITION |-> <<PositionX(veh_lane[v], veh_kin[v].pos),
                        PositionY(veh_lane[v])>>,
     VAR_ANGLE |-> Network.angle,
     VAR_LEADER |-> Leader(v)]

\* traci.vehicle.getSubscriptionResults(None)
SubscriptionResults(subscribed) ==
    [v \in {u \in subscribed : InSimulation(u)} |-> SubscriptionData(v)]

----------------------------------------------------------------------------
(* environment/twod_ttc_calculator.py *)

\* math.cos and math.sin of an angle in degrees that is a multiple of 90
Cos(deg) == CASE deg = 0 -> 1 [] deg = 90 -> 0 [] deg = 180 -> -1 [] deg = 270 -> 0
Sin(deg) == CASE deg = 0 -> 0 [] deg = 90 -> 1 [] deg = 180 -> 0 [] deg = 270 -> -1

\* a state tuple is <<x, y, v, theta, l, w>>
Project(dx, dy, dvx, dvy, cos_i, sin_i) ==
    [s_t |-> dx * cos_i + dy * sin_i,
     s_l |-> -dx * sin_i + dy * cos_i,
     v_t |-> dvx * cos_i + dvy * sin_i,
     v_l |-> -dvx * sin_i + dvy * cos_i]

_get_relative_kinematics(state_i, state_j) ==
    Project(state_j[1] - state_i[1], state_j[2] - state_i[2],
            state_j[3] * Cos(state_j[4]) - state_i[3] * Cos(state_i[4]),
            state_j[3] * Sin(state_j[4]) - state_i[3] * Sin(state_i[4]),
            Cos(state_i[4]), Sin(state_i[4]))

\* the critical time of one axis: separation s, relative speed v (dm/s, the
\* epsilon 0.01 m/s is 0.1 dm/s), footprint size
NonNegativeOrInf(crit) == IF RLe(Zero, crit) THEN crit ELSE Inf
AxisTTC(s, v, size) ==
    IF 10 * v > 1 THEN NonNegativeOrInf(Frac(s - size, v))
    ELSE IF 10 * v < -1 THEN NonNegativeOrInf(Frac(s + size, v))
    ELSE Inf

\* calculate_2d_ttc, step 5: the critical dimension and the result
Combine2D(T_long, T_lat, C_long, C_lat) ==
    IF C_long /\ C_lat THEN Zero
    ELSE IF C_long THEN T_long
    ELSE IF C_lat THEN T_lat
    ELSE IF T_long # Inf \/ T_lat # Inf THEN RMin(T_long, T_lat)
    ELSE Inf

\* calculate_2d_ttc, steps 2 to 4, for the relative kinematics k
TTCOfKinematics(k, L, W) ==
    Combine2D(AxisTTC(k.s_l, k.v_l, L), AxisTTC(k.s_t, k.v_t, W),
              Abs(k.s_t) < W, Abs(k.s_l) < L)

\* the unpacking of a state tuple of another length raises ValueError, which
\* the try of calculate_2d_ttc catches
calculate_2d_ttc(state_i, state_j) ==
    IF Len(state_i) # 6 \/ Len(state_j) # 6 THEN Inf
    ELSE TTCOfKinematics(_get_relative_kinematics(state_i, state_j),
                         state_i[5], state_i[6])

----------------------------------------------------------------------------
(* VehicleController (V1.6).  all_veh_data is passed as "data": it is       *)
(* rebuilt from the engine in every update_vehicle_states and read only     *)
(* inside that call.  A method that writes a memory returns the memory as   *)
(* it leaves it.                                                            *)

\* a state tuple that is None
NoState == <<>>

_format_state_from_sub(veh_id, veh_data) ==
    IF veh_data.VAR_TYPE \notin DOMAIN vtype_cache THEN NoState
    ELSE <<veh_data.VAR_POSITION[1], veh_data.VAR_POSITION[2],
           veh_data.VAR_SPEED, (90 - veh_data.VAR_ANGLE) % 360,
           vtype_cache[veh_data.VAR_TYPE].length,
           vtype_cache[veh_data.VAR_TYPE].width>>

\* the lane position the controller has for another vehicle
OtherPos(other_id, data) ==
    IF other_id \in DOMAIN data THEN data[other_id].VAR_LANEPOSITION
                                ELSE veh_kin[other_id].pos

\* variant: the lane positions are subtracted whatever the edge
UnifiedDistSameEdge(edge_type, other_pos, current_pos, edge_len, current_edge_len) ==
    other_pos - current_pos

\* _get_target_neighbors: dist = other - ego, by the kind of edge searched
UnifiedDist(edge_type, other_pos, current_pos, edge_len, current_edge_len) ==
    CASE edge_type = "curr" -> other_pos - current_pos
      [] edge_type = "prev" -> other_pos - edge_len - current_pos
      [] edge_type = "next" -> (current_edge_len - current_pos) + other_pos

\* _get_target_neighbors: the candidates of one searched edge
NeighborCandidates(veh_id, current_pos, current_edge_len, edge_id, edge_type, target_lane_idx, data) ==
    {[id |-> other_id,
      dist |-> UnifiedDist(edge_type, OtherPos(other_id, data), current_pos,
                           edge_lengths(edge_id), current_edge_len)] :
        other_id \in {o \in LastStepVehicleIDs(LaneId(edge_id, target_lane_idx)) :
                        o # veh_id /\ OtherPos(o, data) >= 0}}

\* _get_target_neighbors: the edges searched, each with its kind
SearchEdges(current_edge, curr_order) ==
    (IF curr_order > 0 THEN {<<SCL_EDGES[curr_order - 1], "prev">>} ELSE {})
    \cup {<<current_edge, "curr">>}
    \cup (IF curr_order < TOTAL_SCL_COUNT - 1
          THEN {<<SCL_EDGES[curr_order + 1], "next">>} ELSE {})

\* _get_target_neighbors: best_tp and best_tf among the candidates ahead and
\* the candidates behind
NearestOf(front, back) ==
    [tp |-> IF front = {} THEN NoVeh
            ELSE (CHOOSE c \in front : \A d \in front : c.dist <= d.dist).id,
     tf |-> IF back = {} THEN NoVeh
            ELSE (CHOOSE c \in back :
                     \A d \in back : Abs(c.dist) <= Abs(d.dist)).id]

BestNeighbors(found) ==
    NearestOf({c \in found : c.dist > 0}, {c \in found : c.dist <= 0})

_get_target_neighbors(veh_id, veh_data, direction, data) ==
    IF veh_data.VAR_LANE_INDEX + direction < 0
       \/ veh_data.VAR_LANE_INDEX + direction >= LaneNumber
       \/ veh_data.VAR_ROAD_ID \notin DOMAIN edge_to_order
    THEN [tp |-> NoVeh, tf |-> NoVeh]
    ELSE BestNeighbors(
            UNION {NeighborCandidates(veh_id, veh_data.VAR_LANEPOSITION,
                       edge_lengths(veh_data.VAR_ROAD_ID), item[1], item[2],
                       veh_data.VAR_LANE_INDEX + direction, data) :
                   item \in SearchEdges(veh_data.VAR_ROAD_ID,
                                        edge_to_order[veh_data.VAR_ROAD_ID])})

\* variants of the operators below, each with one step of the code changed
IsSafeAtThreshold(ttc_tp, ttc_tf, threshold) ==
    RLe(threshold, ttc_tp) /\ RLe(threshold, ttc_tf)
TickForgetsAll(cooldowns) == [v \in {} |-> 0]
TickWithoutDecrement(cooldowns) == [v \in {u \in DOMAIN cooldowns : cooldowns[u] > 1} |-> cooldowns[v]]
MandatoryExitNoCoop(current_lane_index) ==
    [prob_lc |-> One, coop_request |-> Zero,
     target_lane_index |-> current_lane_index + 1, direction |-> _LC_DIR_LEFT]
MandatoryExitBeyond(current_lane_index) ==
    [prob_lc |-> One, coop_request |-> One,
     target_lane_index |-> current_lane_index + LaneNumber,
     direction |-> _LC_DIR_LEFT]
DissatisfactionUnscaled(v_current, v_desired) ==
    IF v_desired > Dm(1)
    THEN RMax(Zero, Frac(v_desired - v_current, v_desired))
    ELSE Zero
DissatisfactionOfSpeed(v_current, v_desired) ==
    IF v_desired > Dm(1)
    THEN RMul(RMax(Zero, Frac(v_current, v_desired)), SIM_STEP_S)
    ELSE Zero
HmlMotivationAboveOnly(veh_id, dmem1, current_total_d, speed_gain) ==
    IF RLe(current_total_d, Num(CUMULATIVE_DISSATISFACTION_S))
    THEN [prob |-> Zero, dmem |-> dmem1]
    ELSE IF RLe(speed_gain, Zero)
    THEN [prob |-> Zero, dmem |-> dmem1]
    ELSE IF RLe(speed_gain, Num(Dm(SPEED_DIFF_THRESHOLD_MS)))
    THEN [prob |-> RDiv(speed_gain, Num(Dm(SPEED_DIFF_THRESHOLD_MS))),
          dmem |-> dmem1]
    ELSE [prob |-> One, dmem |-> Put(dmem1, veh_id, Zero)]
HmlMotivationResetsEarly(veh_id, dmem1, current_total_d, speed_gain) ==
    IF RLe(current_total_d, Num(CUMULATIVE_DISSATISFACTION_S))
    THEN [prob |-> Zero, dmem |-> dmem1]
    ELSE IF RLe(speed_gain, Zero)
    THEN [prob |-> Zero, dmem |-> dmem1]
    ELSE [prob |-> IF RLt(speed_gain, Num(Dm(SPEED_DIFF_THRESHOLD_MS)))
                   THEN RDiv(speed_gain, Num(Dm(SPEED_DIFF_THRESHOLD_MS)))
                   ELSE One,
          dmem |-> Put(dmem1, veh_id, Zero)]

\* _assess_lane_change_safety_2D_TTC: is_safe
IsSafe(ttc_tp, ttc_tf, threshold) ==
    RLt(threshold, ttc_tp) /\ RLt(threshold, ttc_tf)

\* the TTC with one neighbour, given its state: other_first for the follower
\* (calculate_2d_ttc(state_k, state_i)), else calculate_2d_ttc(state_i, state_j)
TTCWithState(state_i, state_o, other_first) ==
    IF state_o = NoState THEN Inf
    ELSE IF other_first THEN calculate_2d_ttc(state_o, state_i)
    ELSE calculate_2d_ttc(state_i, state_o)

\* the TTC to one neighbour slot: +inf when the slot is empty or the
\* neighbour has no data
NeighborTTC(other_id, state_i, data, other_first) ==
    IF other_id = NoVeh \/ other_id \notin DOMAIN data THEN Inf
    ELSE TTCWithState(state_i,
                      _format_state_from_sub(other_id, data[other_id]),
                      other_first)

effective_ttc_threshold(veh_data, hml) ==
    IF StartsWith(veh_data.VAR_TYPE, HvTypeId) /\ veh_data.VAR_LANE_ID \in hml
    THEN Num(_TTC_HML_FLEXIBLE_THRESHOLD)
    ELSE Num(TTC_2D_THRESHOLD_S)

Assessment(gaps, ttc_tp, ttc_tf, threshold, has_state) ==
    [is_safe |-> has_state /\ IsSafe(ttc_tp, ttc_tf, threshold),
     tp |-> gaps.tp, tf |-> gaps.tf, ttc_tp |-> ttc_tp, ttc_tf |-> ttc_tf,
     threshold |-> threshold]

AssessWith(gaps, state_i, threshold, data) ==
    IF state_i = NoState THEN Assessment(gaps, Inf, Inf, threshold, FALSE)
    ELSE Assessment(gaps, NeighborTTC(gaps.tp, state_i, data, FALSE),
                    NeighborTTC(gaps.tf, state_i, data, TRUE), threshold, TRUE)

\* returns is_safe and gaps (tp, tf), with the two TTCs and the threshold
\* they were compared with
_assess_lane_change_safety_2D_TTC(veh_id, veh_data, direction, hml, data) ==
    AssessWith(_get_target_neighbors(veh_id, veh_data, direction, data),
               _format_state_from_sub(veh_id, veh_data),
               effective_ttc_threshold(veh_data, hml), data)

\* _get_speed_gain: the speed of a vehicle named by the snapshot, else -1.0
SpeedOf(other_id, data) ==
    IF other_id # NoVeh /\ other_id \in DOMAIN data
    THEN Num(data[other_id].VAR_SPEED) ELSE Num(-1)

\* _get_speed_gain: v_tp - v_p after the defaults
SpeedGainOf(v_p, v_tp, v_current, default_v_tp) ==
    RSub(IF RLt(v_tp, Zero) THEN default_v_tp ELSE v_tp,
         IF RLt(v_p, Zero) THEN Num(v_current) ELSE v_p)

_get_speed_gain(veh_id, veh_data, target_lane_index, data) ==
    SpeedGainOf(SpeedOf(veh_data.VAR_LEADER[1], data),
                SpeedOf(_get_target_neighbors(veh_id, veh_data, _LC_DIR_LEFT,
                                              data).tp, data),
                veh_data.VAR_SPEED, DESIGN_SPEED_MS)

\* the dissatisfaction of one evaluation
Dissatisfaction(v_current, v_desired) ==
    IF v_desired > Dm(1)
    THEN RMul(RMax(Zero, Frac(v_desired - v_current, v_desired)), SIM_STEP_S)
    ELSE Zero

\* _calculate_cav_hml_motivation after the accumulation
HmlMotivationOf(veh_id, dmem1, current_total_d, speed_gain) ==
    IF RLe(current_total_d, Num(CUMULATIVE_DISSATISFACTION_S))
    THEN [prob |-> Zero, dmem |-> dmem1]
    ELSE IF RLe(speed_gain, Zero)
    THEN [prob |-> Zero, dmem |-> dmem1]
    ELSE IF RLt(speed_gain, Num(Dm(SPEED_DIFF_THRESHOLD_MS)))
    THEN [prob |-> RDiv(speed_gain, Num(Dm(SPEED_DIFF_THRESHOLD_MS))),
          dmem |-> dmem1]
    ELSE [prob |-> One, dmem |-> Put(dmem1, veh_id, Zero)]

Accumulate(veh_id, dmem, current_total_d, speed_gain) ==
    HmlMotivationOf(veh_id, Put(dmem, veh_id, current_total_d),
                    current_total_d, speed_gain)

\* returns the motivation and the dissatisfaction memory it leaves
_calculate_cav_hml_motivation(veh_id, veh_data, target_lane_index, dmem, data) ==
    Accumulate(veh_id, dmem,
               RAdd(Get(dmem, veh_id, Zero),
                    Dissatisfaction(veh_data.VAR_SPEED,
                                    veh_data.VAR_ALLOWED_SPEED)),
               _get_speed_gain(veh_id, veh_data, target_lane_index, data))

\* returns d_cav (dm), the value it stores in cav_cdl_distance_memory
CdlDistance(scl_index, distance_on_edge) ==
    IF scl_index < 0 THEN 0
    ELSE scl_index * Dm(SCL_LENGTH_M) + distance_on_edge

_update_and_get_cdl_distance(veh_id, veh_data, cdl_start_edge) ==
    IF cdl_start_edge = NoEdge \/ veh_data.VAR_ROAD_ID \notin DOMAIN edge_to_order
    THEN 0
    ELSE CdlDistance(edge_to_order[veh_data.VAR_ROAD_ID]
                        - Get(edge_to_order, cdl_start_edge, 0),
                     veh_data.VAR_LANEPOSITION)

\* a variant without the test d_cav >= denom
ProbSafeUnguarded(d_cav, denom) == Frac(d_cav, denom)

\* _calculate_cav_cdl_motivation: prob_safe
ProbSafe(d_cav, denom) == IF d_cav >= denom THEN One ELSE Frac(d_cav, denom)

CdlMotivationOf(veh_id, eff, d_cav, denom, cdlmem) ==
    [prob |-> RSub(One, RMul(RSub(One, eff.prob),
                             RSub(One, ProbSafe(d_cav, denom)))),
     dmem |-> eff.dmem,
     cdlmem |-> Put(cdlmem, veh_id, d_cav)]

_calculate_cav_cdl_motivation(veh_id, veh_data, target_lane_index, cdl, cdl_start_edge, dmem, cdlmem, data) ==
    CdlMotivationOf(veh_id,
        _calculate_cav_hml_motivation(veh_id, veh_data, target_lane_index,
                                      dmem, data),
        _update_and_get_cdl_distance(veh_id, veh_data, cdl_start_edge),
        Cardinality(cdl) * Dm(SCL_LENGTH_M) - Dm(STOPPING_DISTANCE_THRESHOLD_M),
        cdlmem)

\* _get_lane_change_motivation, strategy 1: an HV on a restricted lane
MandatoryExit(current_lane_index) ==
    [prob_lc |-> One, coop_request |-> One,
     target_lane_index |-> current_lane_index + 1, direction |-> _LC_DIR_LEFT]

\* what a CAV branch returns for the probability it computed
CavMotivation(prob_lc, target_idx_candidate) ==
    IF RLt(Zero, prob_lc)
    THEN [prob_lc |-> prob_lc,
          coop_request |-> IF prob_lc = One THEN One ELSE Zero,
          target_lane_index |-> target_idx_candidate,
          direction |-> _LC_DIR_LEFT]
    ELSE [prob_lc |-> prob_lc, coop_request |-> Zero,
          target_lane_index |-> -1, direction |-> 0]

NoMotivation ==
    [prob_lc |-> Zero, coop_request |-> Zero, target_lane_index |-> -1,
     direction |-> 0]

\* the result of a branch that called _calculate_cav_hml_motivation (r), and
\* of the branch that called _calculate_cav_cdl_motivation
CavHmlResult(r, target_idx_candidate, cdlmem) ==
    [m |-> CavMotivation(r.prob, target_idx_candidate),
     dmem |-> r.dmem, cdlmem |-> cdlmem]
CavCdlResult(r, target_idx_candidate) ==
    [m |-> CavMotivation(r.prob, target_idx_candidate),
     dmem |-> r.dmem, cdlmem |-> r.cdlmem]
Unmoved(m, dmem, cdlmem) == [m |-> m, dmem |-> dmem, cdlmem |-> cdlmem]

\* returns [m: (prob_lc, coop_request, target_lane_index, direction),
\*          dmem, cdlmem: the two memories as the call leaves them]
_get_lane_change_motivation(veh_id, veh_data, current_lane, hml, cdl, ml, cdl_start_edge, dmem, cdlmem, data) ==
    IF veh_data.VAR_LANE_INDEX = -1
    THEN Unmoved(NoMotivation, dmem, cdlmem)
    ELSE IF ~StartsWith(veh_data.VAR_TYPE, HvTypeId) /\ current_lane \in ml
    THEN IF veh_data.VAR_LANE_INDEX + 1 < LaneNumber
         THEN CavHmlResult(
                  _calculate_cav_hml_motivation(veh_id, veh_data,
                      veh_data.VAR_LANE_INDEX + 1, dmem, data),
                  veh_data.VAR_LANE_INDEX + 1, cdlmem)
         ELSE Unmoved(NoMotivation, dmem, cdlmem)
    ELSE IF StartsWith(veh_data.VAR_TYPE, HvTypeId)
            /\ (current_lane \in cdl \/ current_lane \in hml)
    THEN Unmoved(MandatoryExit(veh_data.VAR_LANE_INDEX), dmem, cdlmem)
    ELSE IF ~StartsWith(veh_data.VAR_TYPE, HvTypeId) /\ current_lane \in hml
    THEN CavHmlResult(
             _calculate_cav_hml_motivation(veh_id, veh_data,
                 veh_data.VAR_LANE_INDEX + 1, dmem, data),
             veh_data.VAR_LANE_INDEX + 1, cdlmem)
    ELSE IF ~StartsWith(veh_data.VAR_TYPE, HvTypeId) /\ current_lane \in cdl
    THEN CavCdlResult(
             _calculate_cav_cdl_motivation(veh_id, veh_data,
                 veh_data.VAR_LANE_INDEX + 1, cdl, cdl_start_edge,
                 dmem, cdlmem, data),
             veh_data.VAR_LANE_INDEX + 1)
    ELSE Unmoved(NoMotivation, dmem, cdlmem)

\* the reaction time used for a vehicle type
TauOf(type_params) ==
    IF RLt(type_params.tau, Frac(1, 10)) THEN HV_BRAKE_REACTION_TIME_S
                                         ELSE type_params.tau

\* the safe following distance v * tau + minGap of a cooperation target
SafeDistance(coop_data) ==
    RAdd(RMul(Num(coop_data.VAR_SPEED), TauOf(vtype_cache[coop_data.VAR_TYPE])),
         Num(vtype_cache[coop_data.VAR_TYPE].minGap))

_check_cooperation_safety_proxy(coop_veh_id, coop_data) ==
    IF coop_data.VAR_LEADER = NoLeader THEN TRUE
    ELSE IF coop_data.VAR_TYPE \notin DOMAIN vtype_cache THEN FALSE
    ELSE RLt(SafeDistance(coop_data), Num(coop_data.VAR_LEADER[2]))

\* a variant that prefers the follower when both neighbours are CAVs
SelectCoopFollowerFirst(tp_id, tf_id, tp_is_cav, tf_is_cav) ==
    IF tf_is_cav
    THEN [coop_target_id |-> tf_id, coop_action |-> "decel"]
    ELSE IF tp_is_cav
    THEN [coop_target_id |-> tp_id, coop_action |-> "accel"]
    ELSE [coop_target_id |-> NoVeh, coop_action |-> "none"]

\* attempt_lane_change_cooperation: the target and the action selected
SelectCoop(tp_id, tf_id, tp_is_cav, tf_is_cav) ==
    IF tp_id = NoVeh /\ tf_is_cav
    THEN [coop_target_id |-> tf_id, coop_action |-> "decel"]
    ELSE IF tf_id = NoVeh /\ tp_is_cav
    THEN [coop_target_id |-> tp_id, coop_action |-> "accel"]
    ELSE IF tp_is_cav
    THEN [coop_target_id |-> tp_id, coop_action |-> "accel"]
    ELSE IF tf_is_cav
    THEN [coop_target_id |-> tf_id, coop_action |-> "decel"]
    ELSE [coop_target_id |-> NoVeh, coop_action |-> "none"]

IsCavInData(other_id, data) ==
    other_id # NoVeh /\ other_id \in DOMAIN data
        /\ StartsWith(data[other_id].VAR_TYPE, CavTypeId)

CoopSelection(gaps, data) ==
    SelectCoop(gaps.tp, gaps.tf, IsCavInData(gaps.tp, data),
               IsCavInData(gaps.tf, data))

\* traci.vehicle.setAcceleration(coop_target_id, a, coop_duration), and the
\* cooldown set after it.  S is the state one update_vehicle_states threads
\* through its calls: the three memories and the commands sent so far,
\*   [dmem, cdlmem, cool, lc, acc]
Commanded(S, veh_id, coop_target_id, a) ==
    [S EXCEPT !.acc = @ \cup {[target |-> coop_target_id, ego |-> veh_id,
                               accel |-> a,
                               duration |-> RMul(SIM_STEP_S, Num(5))]},
              !.cool = Put(@, coop_target_id, _COOP_COOLDOWN_STEPS)]

\* a variant that leaves out the factors 0.5 and 0.6
CoopCommandFullRate(S, veh_id, coop_target_id, coop_action, type_params, gap_to_leader, safe_distance, step_s) ==
    IF coop_action = "accel"
    THEN IF RLe(gap_to_leader, RMul(safe_distance, Frac(12, 10))) THEN S
         ELSE Commanded(S, veh_id, coop_target_id,
                  RMin(Num(type_params.accel),
                       RDiv(RSub(gap_to_leader, safe_distance), step_s)))
    ELSE IF coop_action = "decel"
    THEN IF gap_to_leader = Inf
            \/ RLe(RMul(safe_distance, Frac(11, 10)), gap_to_leader) THEN S
         ELSE IF RLe(RSub(safe_distance, gap_to_leader), Zero) THEN S
         ELSE Commanded(S, veh_id, coop_target_id,
                  RSub(Zero,
                       RMin(Num(type_params.decel),
                            RDiv(RSub(safe_distance, gap_to_leader), step_s))))
    ELSE [S EXCEPT !.cool = Put(@, coop_target_id, _COOP_COOLDOWN_STEPS)]

\* the accel and the decel branch, for the gap and the safe distance found
CoopCommand(S, veh_id, coop_target_id, coop_action, type_params, gap_to_leader, safe_distance, step_s) ==
    IF coop_action = "accel"
    THEN IF RLe(gap_to_leader, RMul(safe_distance, Frac(12, 10))) THEN S
         ELSE Commanded(S, veh_id, coop_target_id,
                  RMin(RMul(Num(type_params.accel), Frac(1, 2)),
                       RDiv(RSub(gap_to_leader, safe_distance), step_s)))
    ELSE IF coop_action = "decel"
    THEN IF gap_to_leader = Inf
            \/ RLe(RMul(safe_distance, Frac(11, 10)), gap_to_leader) THEN S
         ELSE IF RLe(RSub(safe_distance, gap_to_leader), Zero) THEN S
         ELSE Commanded(S, veh_id, coop_target_id,
                  RSub(Zero,
                       RMin(RMul(Num(type_params.decel), Frac(6, 10)),
                            RDiv(RSub(safe_distance, gap_to_leader), step_s))))
    ELSE [S EXCEPT !.cool = Put(@, coop_target_id, _COOP_COOLDOWN_STEPS)]

\* attempt_lane_change_cooperation from the selection on
CoopWith(S, veh_id, coop_target_id, coop_action, data) ==
    IF coop_target_id = NoVeh THEN S
    ELSE IF coop_target_id \notin DOMAIN data THEN S
    ELSE IF Get(S.cool, coop_target_id, 0) > 0 THEN S
    ELSE IF ~_check_cooperation_safety_proxy(coop_target_id,
                                             data[coop_target_id]) THEN S
    ELSE IF data[coop_target_id].VAR_TYPE \notin DOMAIN vtype_cache THEN S
    ELSE CoopCommand(S, veh_id, coop_target_id, coop_action,
             vtype_cache[data[coop_target_id].VAR_TYPE],
             IF data[coop_target_id].VAR_LEADER = NoLeader THEN Inf
             ELSE Num(data[coop_target_id].VAR_LEADER[2]),
             SafeDistance(data[coop_target_id]),
             RMax(SIM_STEP_S, Frac(1, 10)))

CoopSelected(S, veh_id, sel, data) ==
    CoopWith(S, veh_id, sel.coop_target_id, sel.coop_action, data)

\* returns S as the call leaves it
attempt_lane_change_cooperation(S, veh_id, veh_data, gaps, data) ==
    CoopSelected(S, veh_id, CoopSelection(gaps, data), data)

\* whether random.random() >= prob_lc, "draw_below" saying whether the draw
\* came out below a prob_lc strictly between 0 and 1
RandomAtLeast(prob_lc, draw_below) ==
    IF RLe(One, prob_lc) THEN FALSE
    ELSE IF RLe(prob_lc, Zero) THEN TRUE
    ELSE ~draw_below

\* a variant that commands the change whatever the safety check found
DecideForces(S1, veh_id, veh_data, m, a, data) ==
    IF a.is_safe
    THEN [S1 EXCEPT !.lc = @ \cup {[veh_id |-> veh_id,
                                     target_lane |-> m.target_lane_index]}]
    ELSE IF m.prob_lc = One /\ m.coop_request = One
    THEN attempt_lane_change_cooperation(
             [S1 EXCEPT !.lc = @ \cup {[veh_id |-> veh_id,
                                         target_lane |-> m.target_lane_index]}],
             veh_id, veh_data, [tp |-> a.tp, tf |-> a.tf], data)
    ELSE S1

\* manage_dcdl_lane_changing after the safety check
Decide(S1, veh_id, veh_data, m, a, data) ==
    IF a.is_safe
    THEN [S1 EXCEPT !.lc = @ \cup {[veh_id |-> veh_id,
                                     target_lane |-> m.target_lane_index]}]
    ELSE IF m.prob_lc = One /\ m.coop_request = One
    THEN attempt_lane_change_cooperation(S1, veh_id, veh_data,
             [tp |-> a.tp, tf |-> a.tf], data)
    ELSE S1

\* manage_dcdl_lane_changing after _get_lane_change_motivation
Gate(S1, veh_id, veh_data, m, hml, draw_below, data) ==
    IF m.prob_lc = Zero \/ m.target_lane_index = -1 THEN S1
    ELSE IF RLt(m.coop_request, One) /\ RandomAtLeast(m.prob_lc, draw_below)
    THEN S1
    ELSE Decide(S1, veh_id, veh_data, m,
                _assess_lane_change_safety_2D_TTC(veh_id, veh_data,
                    m.direction, hml, data),
                data)

Motivated(S, veh_id, veh_data, mot, hml, draw_below, data) ==
    Gate([S EXCEPT !.dmem = mot.dmem, !.cdlmem = mot.cdlmem], veh_id,
         veh_data, mot.m, hml, draw_below, data)

\* manage_dcdl_lane_changing for one vehicle
manage_dcdl_lane_changing(S, veh_id, veh_data, hml, cdl, ml, cdl_start_edge, draw_below, data) ==
    Motivated(S, veh_id, veh_data,
              _get_lane_change_motivation(veh_id, veh_data,
                  veh_data.VAR_LANE_ID, hml, cdl, ml, cdl_start_edge,
                  S.dmem, S.cdlmem, data),
              hml, draw_below, data)

_tick_cooperation_cooldowns(cooldowns) ==
    [v \in {u \in DOMAIN cooldowns : cooldowns[u] > 1} |-> cooldowns[v] - 1]

\* update_vehicle_states, step 4: the loop over controlled_veh_ids, in the
\* order "order" of the set's iteration
RECURSIVE ManageAll(_, _, _, _, _, _, _, _)
ManageAll(order, S, hml, cdl, ml, cdl_start_edge, draws, data) ==
    IF order = <<>> THEN S
    ELSE ManageAll(Tail(order),
                   manage_dcdl_lane_changing(S, Head(order), data[Head(order)],
                       hml, cdl, ml, cdl_start_edge, draws[Head(order)], data),
                   hml, cdl, ml, cdl_start_edge, draws, data)

\* the orders in which a set can be iterated
Orders(set) ==
    {f \in [1..Cardinality(set) -> set] :
        \A i, j \in 1..Cardinality(set) : i # j => f[i] # f[j]}

\* a variant that forgets the last of the five deletions
HandleKeepsCooldowns(results) ==
    [subscribed |-> (subscribed_vehicles \ results.arrived)
                        \cup results.departed,
     controlled |-> controlled_veh_ids \ results.arrived,
     dmem |-> Without(cav_dissatisfaction_memory, results.arrived),
     cdlmem |-> Without(cav_cdl_distance_memory, results.arrived),
     cool |-> cooperation_cooldowns]

\* _handle_subscriptions: what it leaves in the five fields it touches
_handle_subscriptions(results) ==
    [subscribed |-> (subscribed_vehicles \ results.arrived)
                        \cup results.departed,
     controlled |-> controlled_veh_ids \ results.arrived,
     dmem |-> Without(cav_dissatisfaction_memory, results.arrived),
     cdlmem |-> Without(cav_cdl_distance_memory, results.arrived),
     cool |-> Without(cooperation_cooldowns, results.arrived)]

\* the vehicles random.random() can be drawn for: an HV has coop_request 1.0
\* or no motivation
Drawers == {v \in Vehicles : VehicleTypeId[v] = CavTypeId}

\* update_vehicle_states(hml_lanes, cdl_lanes, ml_lanes, cdl_start_edge,
\* MODE_CUSTOM)
update_vehicle_states(hml, cdl, ml, cdl_start_edge) ==
    \E h \in {_handle_subscriptions(sim_results)} :
    \E ticked \in {_tick_cooperation_cooldowns(h.cool)} :
    \E data \in {SubscriptionResults(h.subscribed)} :
    \E current_controlled_veh_ids \in
         {{v \in DOMAIN data : data[v].VAR_LANE_ID \in hml \cup cdl \cup ml}} :
    \E previously_controlled \in {h.controlled} :
    \E released_vehicles \in
         {previously_controlled \ current_controlled_veh_ids},
       newly_controlled \in
         {current_controlled_veh_ids \ previously_controlled} :
    \E order \in Orders(current_controlled_veh_ids),
       draws \in [Drawers -> BOOLEAN] :
    \E S \in {ManageAll(order,
                 [dmem |-> h.dmem, cdlmem |-> h.cdlmem, cool |-> ticked,
                  lc |-> lc_commands, acc |-> accel_commands],
                 hml, cdl, ml, cdl_start_edge,
                 [v \in Vehicles |-> IF v \in Drawers THEN draws[v] ELSE FALSE],
                 data)} :
      /\ subscribed_vehicles' = h.subscribed
      /\ lane_change_mode' =
           [v \in Vehicles |->
               IF v \in newly_controlled THEN _TRACI_LC_MODE
               ELSE IF v \in released_vehicles /\ v \in DOMAIN data
               THEN _SUMO_DEFAULT_LC_MODE
               ELSE lane_change_mode[v]]
      /\ controlled_veh_ids' = current_controlled_veh_ids
      /\ cav_dissatisfaction_memory' = S.dmem
      /\ cav_cdl_distance_memory' = S.cdlmem
      /\ cooperation_cooldowns' = S.cool
      /\ lc_commands' = S.lc
      /\ accel_commands' = S.acc

----------------------------------------------------------------------------
(* VehicleController (V4): _get_lane_change_motivation and what it calls.   *)
(* controller/config.py of V4 is not among the sources; the configuration   *)
(* read is that of V1.6.                                                    *)

\* V4 searches the current edge only and does not ask for the lane count
NeighborCandidates_V4(veh_id, current_lane_pos, target_lane_id, data) ==
    {[id |-> o, dist |-> OtherPos(o, data) - current_lane_pos] :
        o \in LastStepVehicleIDs(target_lane_id) \ {veh_id}}

_get_target_neighbors_V4(veh_id, veh_data, direction, data) ==
    IF veh_data.VAR_LANE_INDEX + direction < 0
       \/ LaneId(veh_data.VAR_ROAD_ID, veh_data.VAR_LANE_INDEX + direction)
             \notin AllLanes
    THEN [tp |-> NoVeh, tf |-> NoVeh]
    ELSE BestNeighbors(NeighborCandidates_V4(veh_id, veh_data.VAR_LANEPOSITION,
             LaneId(veh_data.VAR_ROAD_ID, veh_data.VAR_LANE_INDEX + direction),
             data))

_get_speed_gain_V4(veh_id, veh_data, target_lane_index, data) ==
    SpeedGainOf(SpeedOf(veh_data.VAR_LEADER[1], data),
                SpeedOf(_get_target_neighbors_V4(veh_id, veh_data,
                                                 _LC_DIR_LEFT, data).tp, data),
                veh_data.VAR_SPEED, RMul(DESIGN_SPEED_MS, Frac(3, 2)))

HmlMotivationOf_V4(veh_id, dmem1, prob_eff, speed_gain) ==
    IF RLt(prob_eff, One) THEN [prob |-> prob_eff, dmem |-> dmem1]
    ELSE IF RLt(Num(Dm(SPEED_DIFF_THRESHOLD_MS)), speed_gain)
    THEN [prob |-> One, dmem |-> Put(dmem1, veh_id, Zero)]
    ELSE [prob |-> Zero, dmem |-> dmem1]

Accumulate_V4(veh_id, dmem, current_total_d, speed_gain) ==
    HmlMotivationOf_V4(veh_id, Put(dmem, veh_id, current_total_d),
        RMin(One, RDiv(current_total_d, Num(CUMULATIVE_DISSATISFACTION_S))),
        speed_gain)

_calculate_cav_hml_motivation_V4(veh_id, veh_data, target_lane_index, dmem, data) ==
    Accumulate_V4(veh_id, dmem,
                  RAdd(Get(dmem, veh_id, Zero),
                       Dissatisfaction(veh_data.VAR_SPEED,
                                       veh_data.VAR_ALLOWED_SPEED)),
                  _get_speed_gain_V4(veh_id, veh_data, target_lane_index, data))

\* V4 _calculate_cav_cdl_motivation: prob_safe
ProbSafe_V4(l_remaining, d_stop_bar) ==
    RSub(One, RMin(One, RMax(Zero, Frac(l_remaining, d_stop_bar))))

CdlMotivationOf_V4(veh_id, eff, d_cav, l_cdl_total, cdlmem) ==
    [prob |-> RSub(One, RMul(RSub(One, eff.prob),
                     RSub(One, ProbSafe_V4(l_cdl_total - d_cav,
                                   Dm(STOPPING_DISTANCE_THRESHOLD_M))))),
     dmem |-> eff.dmem,
     cdlmem |-> Put(cdlmem, veh_id, d_cav)]

_calculate_cav_cdl_motivation_V4(veh_id, veh_data, target_lane_index, cdl, cdl_start_edge, dmem, cdlmem, data) ==
    CdlMotivationOf_V4(veh_id,
        _calculate_cav_hml_motivation_V4(veh_id, veh_data, target_lane_index,
                                         dmem, data),
        _update_and_get_cdl_distance(veh_id, veh_data, cdl_start_edge),
        Cardinality(cdl) * Dm(SCL_LENGTH_M),
        cdlmem)

\* V4 _get_lane_change_motivation, strategy 1
MandatoryExit_V4(current_lane_index) ==
    [prob_lc |-> One, coop_request |-> One,
     target_lane_index |-> current_lane_index + 1, direction |-> _LC_DIR_LEFT]

_get_lane_change_motivation_V4(veh_id, veh_data, current_lane, hml, cdl, cdl_start_edge, dmem, cdlmem, data) ==
    IF veh_data.VAR_LANE_INDEX = -1
    THEN Unmoved(NoMotivation, dmem, cdlmem)
    ELSE IF StartsWith(veh_data.VAR_TYPE, HvTypeId)
            /\ (current_lane \in cdl \/ current_lane \in hml)
    THEN Unmoved(MandatoryExit_V4(veh_data.VAR_LANE_INDEX), dmem, cdlmem)
    ELSE IF ~StartsWith(veh_data.VAR_TYPE, HvTypeId) /\ current_lane \in hml
    THEN CavHmlResult(
             _calculate_cav_hml_motivation_V4(veh_id, veh_data,
                 veh_data.VAR_LANE_INDEX + 1, dmem, data),
             veh_data.VAR_LANE_INDEX + 1, cdlmem)
    ELSE IF ~StartsWith(veh_data.VAR_TYPE, HvTypeId) /\ current_lane \in cdl
    THEN CavCdlResult(
             _calculate_cav_cdl_motivation_V4(veh_id, veh_data,
                 veh_data.VAR_LANE_INDEX + 1, cdl, cdl_start_edge,
                 dmem, cdlmem, data),
             veh_data.VAR_LANE_INDEX + 1)
    ELSE Unmoved(NoMotivation, dmem, cdlmem)

----------------------------------------------------------------------------
(* Construction *)

\* LaneManager.__init__
LaneManagerInit ==
    /\ current_m = 0
    /\ current_n = 0
    /\ current_r = TOTAL_SCL_COUNT
    /\ hml_lanes = {}
    /\ cdl_lanes = {}
    /\ hcl_lanes = {}
    /\ middle_lanes = {}
    /\ hcl_clearance_map = <<>>
    /\ last_op = [op |-> "init", m |-> 0, n |-> 0, raised |-> FALSE,
                  cleared |-> FALSE]

\* the lane permissions of the network file, before any setAllowed
NetworkPermissions == {[l \in AllLanes |-> ALL_VCLASSES],
                       [l \in AllLanes |-> {VCLASS_CAV}]}

\* VehicleController.__init__
VehicleControllerInit ==
    /\ subscribed_vehicles = {}
    /\ controlled_veh_ids = {}
    /\ cav_dissatisfaction_memory = <<>>
    /\ cav_cdl_distance_memory = <<>>
    /\ cooperation_cooldowns = <<>>

\* a vehicle that has not departed yet, and one that has arrived
Pending == [lane |-> NoLane, pos |-> 0, speed |-> 0,
            allowed |-> Network.allowed_speed, phase |-> "pending"]
Arrived == [lane |-> NoLane, pos |-> 0, speed |-> 0,
            allowed |-> Network.allowed_speed, phase |-> "arrived"]
\* a vehicle on a lane, with the speed the engine allows it there (tc.VAR_
\* ALLOWED_SPEED: the speed limit of the lane times the vehicle's speed factor)
RunningAt(lane, pos, speed, allowed_speed) ==
    [lane |-> lane, pos |-> pos, speed |-> speed, allowed |-> allowed_speed,
     phase |-> "running"]
Running(lane, pos, speed) == RunningAt(lane, pos, speed, Network.allowed_speed)

Kin(scene) == [pos |-> scene.pos, speed |-> scene.speed,
               allowed |-> scene.allowed, phase |-> scene.phase]

\* traci.start: no vehicle has departed, nothing was commanded
EngineInit ==
    /\ veh_kin = [v \in Vehicles |-> Kin(Pending)]
    /\ sim_results = [arrived |-> {}, departed |-> {}]
    /\ lane_change_mode = [v \in Vehicles |-> _SUMO_DEFAULT_LC_MODE]
    /\ lc_commands = {}
    /\ accel_commands = {}

NoOut == [veh |-> NoVeh, prob_lc |-> Zero, coop_request |-> Zero,
          target_lane_index |-> -1, direction |-> 0]

\* no call of calculate_2d_ttc was made
TTCIdle ==
    /\ ttc_args = <<>>
    /\ ttc_result = <<>>

\* no direct call of attempt_lane_change_cooperation is made
CoopIdle == coop_call = <<>>

\* no direct call of _get_target_neighbors is made
NbrIdle == nbr_out = <<>>

\* RewardCalculator.__init__: reset(), and no reward calculated
RewIdle ==
    /\ rew_acc = [cumulative_speed |-> Zero, vehicle_speed_samples |-> 0,
                  total_vehicle_distance |-> Zero]
    /\ rew_out = <<>>

\* no pair of apply_lane_strategy calls is made
PairIdle == apply_pair = <<>>

\* no pair of runs is compared
GateIdle ==
    /\ gate_obs = <<>>
    /\ gate_runs = <<>>

\* traci.start: the connection is up, nothing was raised, nothing closed
RunIdle ==
    /\ connection = "up"
    /\ run_log = [raised |-> 0, late |-> {}, closes |-> 0]
    /\ env_clock = [cycle |-> 0, tick |-> 0, current_step |-> 0]

MotIdle ==
    /\ version = "V1.6"
    /\ mot_out = NoOut
    /\ mot_count = 0
    /\ TTCIdle
    /\ CoopIdle
    /\ NbrIdle
    /\ RewIdle
    /\ PairIdle
    /\ GateIdle
    /\ RunIdle

----------------------------------------------------------------------------
(* SpecLane, SpecLaneInt: the LaneManager under the calls of its callers.   *)
(* One HV moves over the controlled lanes; a CAV stands on the last one.    *)

LaneTraffic == {"hv_1"}

\* traci.simulationStep as the LaneManager sees it: a vehicle comes to stand
\* on another controlled lane, or leaves the controlled lanes
EngineAdvance ==
    /\ \E v \in LaneTraffic, l \in ControlledLanes \cup {NoLane} :
          /\ l # veh_lane[v]
          /\ veh_lane' = [veh_lane EXCEPT ![v] = l]
    /\ UNCHANGED <<laneVars, engineVars, ctlVars, pc, motVars>>

InitLane ==
    /\ LaneManagerInit
    /\ allowed \in NetworkPermissions
    /\ veh_lane = [v \in Vehicles |->
                      IF v = "cav_1" THEN ControlledLane(TOTAL_SCL_COUNT - 1)
                                     ELSE NoLane]
    /\ EngineInit
    /\ VehicleControllerInit
    /\ MotIdle
    /\ pc = "api"

\* the requests of the callers: main.py's fixed policy and the action space
\* 0 .. MAX_M_SCLS x 0 .. MAX_N_SCLS of the environment, and beyond
ApplyRequest ==
    /\ \E m \in 0..MaxReq, n \in 0..MaxReq :
          /\ m + n <= TOTAL_SCL_COUNT + MaxOver
          /\ apply_lane_strategy(m, n)
    /\ UNCHANGED <<engineVars, ctlVars, pc, motVars>>

\* any pair of integers, negative ones included
ApplyAnyInt ==
    /\ \E m \in (-NegReq)..MaxReq, n \in (-NegReq)..MaxReq :
          /\ m + n <= TOTAL_SCL_COUNT + MaxOver
          /\ apply_lane_strategy(m, n)
    /\ UNCHANGED <<engineVars, ctlVars, pc, motVars>>

StepCall ==
    /\ pc = "api"
    /\ step
    /\ UNCHANGED <<engineVars, ctlVars, pc, motVars>>

ResetCall ==
    /\ pc = "api"
    /\ reset_to_mixed_traffic
    /\ UNCHANGED <<engineVars, ctlVars, pc, motVars>>

NextLane == ApplyRequest \/ StepCall \/ ResetCall \/ EngineAdvance

SpecLane == InitLane /\ [][NextLane]_vars

NextLaneInt == ApplyAnyInt \/ StepCall \/ ResetCall

SpecLaneInt == InitLane /\ [][NextLaneInt]_vars

----------------------------------------------------------------------------
(* SpecPair: two consecutive calls of apply_lane_strategy with the same     *)
(* request, after any calls of the LaneManager.  Between the two the engine *)
(* advances and step() is called, any number of times or not at all.        *)

\* the requests made: the fixed policy of main.py, policies of the action
\* space of the environment, and one over the budget
PairPolicies == {<<0, 10>>, <<5, 5>>, <<3, 4>>, <<2, 0>>, <<0, 0>>, <<8, 5>>}

InitPair ==
    /\ LaneManagerInit
    /\ allowed \in NetworkPermissions
    /\ veh_lane = [v \in Vehicles |->
                      IF v = "cav_1" THEN ControlledLane(TOTAL_SCL_COUNT - 1)
                                     ELSE NoLane]
    /\ EngineInit
    /\ VehicleControllerInit
    /\ MotIdle
    /\ pc = "pair_before"

\* the calls made before the pair
PairEarlierApply ==
    /\ pc = "pair_before"
    /\ \E p \in PairPolicies : apply_lane_strategy(p[1], p[2])
    /\ UNCHANGED <<engineVars, ctlVars, pc, motVars>>

PairEarlierStep ==
    /\ pc = "pair_before"
    /\ step
    /\ UNCHANGED <<engineVars, ctlVars, pc, motVars>>

\* the first call of the pair
PairFirstApply ==
    /\ pc = "pair_before"
    /\ \E p \in PairPolicies :
          /\ apply_lane_strategy(p[1], p[2])
          /\ apply_pair' = [m |-> p[1], n |-> p[2], removed |-> {},
                            occupied |-> {}]
    /\ pc' = "pair_between"
    /\ UNCHANGED <<engineVars, ctlVars, version, mot_out, mot_count, ttc_args,
                   ttc_result, coop_call, gate_obs, gate_runs, nbr_out,
                   rew_acc, rew_out, runVars>>

\* step() called between the two calls of the pair
PairBetweenStep ==
    /\ pc = "pair_between"
    /\ step
    /\ apply_pair' = [apply_pair EXCEPT !.removed = @ \cup ClearedLanes]
    /\ UNCHANGED <<engineVars, ctlVars, pc, version, mot_out, mot_count,
                   ttc_args, ttc_result, coop_call, gate_obs, gate_runs,
                   nbr_out, rew_acc, rew_out, runVars>>

\* the second call of the pair, with the request of the first
PairSecondApply ==
    /\ pc = "pair_between"
    /\ apply_lane_strategy(apply_pair.m, apply_pair.n)
    /\ apply_pair' = [apply_pair EXCEPT
                         !.occupied = {l \in hcl_lanes : HasHV(l)}]
    /\ pc' = "pair_done"
    /\ UNCHANGED <<engineVars, ctlVars, version, mot_out, mot_count, ttc_args,
                   ttc_result, coop_call, gate_obs, gate_runs, nbr_out,
                   rew_acc, rew_out, runVars>>

NextPair ==
    \/ PairEarlierApply
    \/ PairEarlierStep
    \/ PairFirstApply
    \/ PairBetweenStep
    \/ PairSecondApply
    \/ EngineAdvance

SpecPair == InitPair /\ [][NextPair]_vars

----------------------------------------------------------------------------
(* SpecDrain: the run loop after the last apply_lane_strategy call.  Two    *)
(* policies are applied, the second leaving HCL lanes behind; from then on  *)
(* every tick calls step() and advances the engine, which moves an HV over  *)
(* the controlled lanes or leaves it where it is.                           *)

InitDrain ==
    /\ LaneManagerInit
    /\ allowed \in NetworkPermissions
    /\ veh_lane = [v \in Vehicles |->
                      IF v = "cav_1" THEN ControlledLane(TOTAL_SCL_COUNT - 1)
                                     ELSE NoLane]
    /\ EngineInit
    /\ VehicleControllerInit
    /\ MotIdle
    /\ pc = "drain_first"

\* an earlier policy
DrainFirstApply ==
    /\ pc = "drain_first"
    /\ \E p \in PairPolicies : apply_lane_strategy(p[1], p[2])
    /\ pc' = "drain_last"
    /\ UNCHANGED <<engineVars, ctlVars, motVars>>

\* the last apply_lane_strategy call of the run
DrainLastApply ==
    /\ pc = "drain_last"
    /\ \E p \in PairPolicies : apply_lane_strategy(p[1], p[2])
    /\ pc' = "drain_sim"
    /\ UNCHANGED <<engineVars, ctlVars, motVars>>

\* lane_manager.step() of the tick
DrainLaneStep ==
    /\ pc = "drain_step"
    /\ step
    /\ pc' = "drain_sim"
    /\ UNCHANGED <<engineVars, ctlVars, motVars>>

\* traci.simulationStep() of the tick
DrainSimulationStep ==
    /\ pc = "drain_sim"
    /\ \E v \in LaneTraffic, l \in ControlledLanes \cup {NoLane} :
          veh_lane' = [veh_lane EXCEPT ![v] = l]
    /\ pc' = "drain_step"
    /\ UNCHANGED <<laneVars, engineVars, ctlVars, motVars>>

\* an engine advance after which no HV stands on HCL lane "lane"
DrainFrees(lane) ==
    /\ lane \in hcl_lanes
    /\ DrainSimulationStep
    /\ \A v \in LaneTraffic : veh_lane'[v] # lane

NextDrain ==
    \/ DrainFirstApply
    \/ DrainLastApply
    \/ DrainLaneStep
    \/ DrainSimulationStep

\* the loop keeps running, and every HCL lane is at some later tick left
\* without an HV
DrainFairness ==
    /\ WF_vars(DrainLaneStep)
    /\ WF_vars(DrainSimulationStep)
    /\ \A lane \in ControlledLanes : SF_vars(DrainFrees(lane))

SpecDrain == InitDrain /\ [][NextDrain]_vars /\ DrainFairness

----------------------------------------------------------------------------
(* SpecRew: the RewardCalculator (V1) under update_per_step and             *)
(* calculate_reward calls.  The constants are those of the CONFIG the       *)
(* module builds for itself; speeds are in dm/s, distances in dm.           *)

REWARD_ALPHA == 1
REWARD_BETA == 1
REWARD_GAMMA == 1
DECISION_CYCLE_S == 60
TTC_SAFETY_CAP == 10
\* 33.33 m/s and 0.1 s
DESIGN_SPEED_MS_V1 == Frac(Dm(3333), 100)
SIM_STEP_LENGTH_S == Frac(1, 10)

\* the samples one run accumulates before a reward is calculated
MaxRewardSamples == 3

\* a / b of two floats; ZeroDivisionError for b = 0
ZeroDivisionError == <<0, 0>>
PyDiv(a, b) ==
    IF a = ZeroDivisionError \/ b = ZeroDivisionError \/ b[1] = 0
    THEN ZeroDivisionError
    ELSE RDiv(a, b)
PyMul(a, b) ==
    IF a = ZeroDivisionError \/ b = ZeroDivisionError THEN ZeroDivisionError
    ELSE RMul(a, b)

\* variants: the average taken without the test of the sample count, and the
\* distance of one vehicle driving one whole cycle at design speed
AvgSpeedUnguarded(acc) == PyDiv(acc.cumulative_speed, Num(acc.vehicle_speed_samples))
MaxDistanceOfOneVehicle(samples) == RMul(DESIGN_SPEED_MS_V1, Num(DECISION_CYCLE_S))

\* RewardCalculator.reset
RewardReset ==
    [cumulative_speed |-> Zero, vehicle_speed_samples |-> 0,
     total_vehicle_distance |-> Zero]

\* update_per_step: the body of the loop, for the speeds of the active
\* vehicles in the order of traci.vehicle.getIDList()
RECURSIVE update_per_step(_, _)
update_per_step(acc, speeds) ==
    IF speeds = <<>> THEN acc
    ELSE update_per_step(
             [cumulative_speed |-> RAdd(acc.cumulative_speed, Head(speeds)),
              vehicle_speed_samples |-> acc.vehicle_speed_samples + 1,
              total_vehicle_distance |->
                  RAdd(acc.total_vehicle_distance,
                       RMul(Head(speeds), SIM_STEP_LENGTH_S))],
             Tail(speeds))

\* calculate_reward: avg_speed
AvgSpeed(acc) ==
    IF acc.vehicle_speed_samples > 0
    THEN PyDiv(acc.cumulative_speed, Num(acc.vehicle_speed_samples))
    ELSE Zero

\* calculate_reward: max_possible_distance
MaxPossibleDistance(samples) ==
    PyMul(PyMul(PyDiv(Num(samples),
                      PyDiv(Num(DECISION_CYCLE_S), SIM_STEP_LENGTH_S)),
                DESIGN_SPEED_MS_V1),
          Num(DECISION_CYCLE_S))

\* calculate_reward: norm_thr, norm_spd, clipped_ttc and norm_saf
NormThr(acc) ==
    IF MaxPossibleDistance(acc.vehicle_speed_samples) # ZeroDivisionError
       /\ RLt(Zero, MaxPossibleDistance(acc.vehicle_speed_samples))
    THEN PyDiv(acc.total_vehicle_distance,
               MaxPossibleDistance(acc.vehicle_speed_samples))
    ELSE IF MaxPossibleDistance(acc.vehicle_speed_samples) = ZeroDivisionError
    THEN ZeroDivisionError
    ELSE Zero
NormSpd(acc) == PyDiv(AvgSpeed(acc), DESIGN_SPEED_MS_V1)
ClippedTtc(avg_ttc) == RMin(Num(TTC_SAFETY_CAP), RMax(Zero, avg_ttc))
NormSaf(avg_ttc) == PyDiv(ClippedTtc(avg_ttc), Num(TTC_SAFETY_CAP))

\* calculate_reward: the terms and the reward; raised when a division by
\* zero ended the call
calculate_reward(acc, avg_ttc) ==
    [samples |-> acc.vehicle_speed_samples,
     avg_ttc |-> avg_ttc,
     norm_thr |-> NormThr(acc),
     norm_spd |-> NormSpd(acc),
     norm_saf |-> NormSaf(avg_ttc),
     reward |-> RAdd(RAdd(PyMul(Num(REWARD_ALPHA), NormThr(acc)),
                          PyMul(Num(REWARD_BETA), NormSpd(acc))),
                     PyMul(Num(REWARD_GAMMA), NormSaf(avg_ttc))),
     raised |-> ZeroDivisionError
                   \in {AvgSpeed(acc), NormThr(acc), NormSpd(acc),
                        NormSaf(avg_ttc)}]

\* traci.vehicle.getSpeed of an active vehicle, in dm/s
RewardSpeeds == {Zero, Num(250), Frac(Dm(3333), 100)}

\* the speeds of the vehicles traci.vehicle.getIDList() reports in one step
\* (a vehicle whose getSpeed raises TraCIException is skipped)
StepSpeeds ==
    {<<>>} \cup {<<a>> : a \in RewardSpeeds}
           \cup {<<a, b>> : a \in RewardSpeeds, b \in RewardSpeeds}

\* what _calculate_avg_2d_ttc returns: TTC_SAFETY_CAP with fewer than two
\* vehicles or no finite sample, else the mean of the finite samples
AvgTtcs == {Num(TTC_SAFETY_CAP), Zero, Frac(5, 2), Num(25)}

InitRew ==
    /\ LaneManagerInit
    /\ allowed = [l \in AllLanes |-> ALL_VCLASSES]
    /\ veh_lane = [v \in Vehicles |-> NoLane]
    /\ EngineInit
    /\ VehicleControllerInit
    /\ MotIdle
    /\ pc = "rew_accumulating"

RewUpdatePerStep ==
    /\ pc \in {"rew_accumulating", "rew_calculated"}
    /\ \E speeds \in StepSpeeds :
          /\ rew_acc.vehicle_speed_samples + Len(speeds) <= MaxRewardSamples
          /\ rew_acc' = update_per_step(rew_acc, speeds)
    /\ pc' = "rew_accumulating"
    /\ UNCHANGED <<laneVars, veh_lane, engineVars, ctlVars, version, mot_out,
                   mot_count, ttc_args, ttc_result, coop_call, gate_obs,
                   gate_runs, nbr_out, rew_out, apply_pair, runVars>>

RewCalculate ==
    /\ pc \in {"rew_accumulating", "rew_calculated"}
    /\ \E avg_ttc \in AvgTtcs :
          rew_out' = calculate_reward(rew_acc, avg_ttc)
    /\ rew_acc' = IF rew_out'.raised THEN rew_acc ELSE RewardReset
    /\ pc' = "rew_calculated"
    /\ UNCHANGED <<laneVars, veh_lane, engineVars, ctlVars, version, mot_out,
                   mot_count, ttc_args, ttc_result, coop_call, gate_obs,
                   gate_runs, nbr_out, apply_pair, runVars>>

NextRew == RewUpdatePerStep \/ RewCalculate

SpecRew == InitRew /\ [][NextRew]_vars

----------------------------------------------------------------------------
(* SpecVeh: the run loop of main.py in MODE_CUSTOM *)

FIXED_POLICY_M == 5
FIXED_POLICY_N == 5

\* where the engine can put each vehicle while it is in the simulation; with
\* the fixed policy segment "6" is HML and segment "7" is CDL
VehScenes ==
    [v \in Vehicles |->
        CASE v = "hv_1" -> {Running(<<7, 0>>, 200, 100),
                            Running(<<7, 0>>, 200, 300),
                            Running(<<6, 0>>, 200, 100)}
          [] v = "hv_2" -> {Running(<<7, 0>>, 100, 100),
                            Running(<<7, 1>>, 100, 100),
                            Running(<<7, 2>>, 100, 100)}
          [] v = "cav_1" -> {Running(<<7, 1>>, 600, 300),
                             Running(<<7, 1>>, 1218, 300),
                             Running(<<7, 0>>, 600, 300)}]

\* where a vehicle can be after one more step of the engine
NextScenes(v, scenes) ==
    CASE veh_kin[v].phase = "pending" -> {Pending} \cup scenes[v]
      [] veh_kin[v].phase = "running" -> scenes[v] \cup {Arrived}
      [] veh_kin[v].phase = "arrived" -> {Arrived}

\* traci.simulation.getMinExpectedNumber()
MinExpectedNumber ==
    Cardinality({v \in Vehicles : veh_kin[v].phase # "arrived"})

InitVeh ==
    /\ LaneManagerInit
    /\ allowed \in NetworkPermissions
    /\ veh_lane = [v \in Vehicles |-> NoLane]
    /\ EngineInit
    /\ VehicleControllerInit
    /\ MotIdle
    /\ pc = "start"

\* lane_manager.apply_lane_strategy(FIXED_POLICY_M, FIXED_POLICY_N)
MainApplyPolicy ==
    /\ pc = "start"
    /\ apply_lane_strategy(FIXED_POLICY_M, FIXED_POLICY_N)
    /\ pc' = "lm_step"
    /\ UNCHANGED <<engineVars, ctlVars, motVars>>

\* while traci.simulation.getMinExpectedNumber() > 0: lane_manager.step()
MainLaneStep ==
    /\ pc = "lm_step"
    /\ MinExpectedNumber > 0
    /\ step
    /\ pc' = "update"
    /\ UNCHANGED <<engineVars, ctlVars, motVars>>

\* veh_controller.update_vehicle_states(...)
MainUpdate ==
    /\ pc = "update"
    /\ update_vehicle_states(hml_lanes, cdl_lanes, middle_lanes,
                             get_cdl_start_edge)
    /\ pc' = "sim"
    /\ UNCHANGED <<laneVars, veh_lane, veh_kin, sim_results, motVars>>

\* traci.simulationStep(): the vehicles move, depart and arrive; the commands
\* received are consumed
SimulationStep(scenes) ==
    /\ \E next \in [Vehicles -> UNION {NextScenes(v, scenes) : v \in Vehicles}] :
          /\ \A v \in Vehicles : next[v] \in NextScenes(v, scenes)
          /\ veh_lane' = [v \in Vehicles |-> next[v].lane]
          /\ veh_kin' = [v \in Vehicles |-> Kin(next[v])]
          /\ sim_results' =
               [arrived |-> {v \in Vehicles : /\ veh_kin[v].phase = "running"
                                              /\ next[v].phase = "arrived"},
                departed |-> {v \in Vehicles : /\ veh_kin[v].phase = "pending"
                                               /\ next[v].phase = "running"}]
          /\ lane_change_mode' =
               [v \in Vehicles |-> IF next[v].phase = "running"
                                   THEN lane_change_mode[v]
                                   ELSE _SUMO_DEFAULT_LC_MODE]
    /\ lc_commands' = {}
    /\ accel_commands' = {}

MainSimulationStep ==
    /\ pc = "sim"
    /\ SimulationStep(VehScenes)
    /\ pc' = "lm_step"
    /\ UNCHANGED <<laneVars, ctlVars, motVars>>

\* finally: traci.close()
Close ==
    /\ connection' = "closed"
    /\ run_log' = [run_log EXCEPT !.closes = @ + 1]
    /\ UNCHANGED env_clock

\* the loop ends; traci.close()
MainClose ==
    /\ pc = "lm_step"
    /\ MinExpectedNumber = 0
    /\ pc' = "done"
    /\ Close
    /\ UNCHANGED <<laneVars, veh_lane, engineVars, ctlVars, evalVars>>

NextVeh == MainApplyPolicy \/ MainLaneStep \/ MainUpdate \/ MainSimulationStep
              \/ MainClose

SpecVeh == InitVeh /\ [][NextVeh]_vars

----------------------------------------------------------------------------
(* SpecV1: the run loop of V1 main.py in CUSTOM_FRAMEWORK, with the          *)
(* VehicleController of V1.  The LaneManager of V1 (V1 lane_manager.py) has  *)
(* the fields and the apply_lane_strategy and step of the one of V1.6,       *)
(* without the middle lanes, which the V1 controller is not given.           *)

\* V1 vehicle_controller.py: _TRACI_LC_MODE
_TRACI_LC_MODE_V1 == 0

\* V1 _handle_subscriptions: the controller of V1 has no cooldown counters
_handle_subscriptions_V1(results) ==
    [subscribed |-> (subscribed_vehicles \ results.arrived)
                        \cup results.departed,
     controlled |-> controlled_veh_ids \ results.arrived,
     dmem |-> Without(cav_dissatisfaction_memory, results.arrived),
     cdlmem |-> Without(cav_cdl_distance_memory, results.arrived)]

\* V1 _get_lane_change_motivation, up to its first return: the target is the
\* lane of index current_lane_index - 1, and a vehicle on lane index 0 is
\* given (0.0, 0.0, -1, 0).  The lanes of both zone sets have the index
\* LANE_INDEX = 0, so every evaluation of a controlled vehicle ends here.
_get_lane_change_motivation_V1(veh_data) ==
    CASE veh_data.VAR_LANE_INDEX <= 0 ->
            [prob_lc |-> Zero, coop_request |-> Zero,
             target_lane_index |-> -1, direction |-> 0]

\* V1 manage_dcdl_lane_changing: if prob_lc == 0.0 or target_lane == -1:
\* return
manage_dcdl_lane_changing_V1(S, veh_id, veh_data) ==
    CASE \/ _get_lane_change_motivation_V1(veh_data).prob_lc = Zero
         \/ _get_lane_change_motivation_V1(veh_data).target_lane_index = -1 -> S

\* V1 update_vehicle_states: for veh_id in self.controlled_veh_ids
RECURSIVE ManageAll_V1(_, _, _)
ManageAll_V1(order, S, data) ==
    IF order = <<>> THEN S
    ELSE ManageAll_V1(Tail(order),
             manage_dcdl_lane_changing_V1(S, Head(order), data[Head(order)]),
             data)

\* V1 update_vehicle_states(hml_lanes, cdl_lanes, cdl_start_edge): the set
\* controlled_veh_ids is assigned before newly_controlled is taken from it
update_vehicle_states_V1(hml, cdl, cdl_start_edge) ==
    \E h \in {_handle_subscriptions_V1(sim_results)} :
    \E data \in {SubscriptionResults(h.subscribed)} :
    \E current_dcdl_veh_ids \in
         {{v \in DOMAIN data : data[v].VAR_LANE_ID \in hml \cup cdl}} :
    \E released_vehicles \in {h.controlled \ current_dcdl_veh_ids} :
    \E controlled_assigned \in {current_dcdl_veh_ids} :
    \E newly_controlled \in {current_dcdl_veh_ids \ controlled_assigned} :
    \E order \in Orders(controlled_assigned) :
    \E S \in {ManageAll_V1(order,
                 [dmem |-> h.dmem, cdlmem |-> h.cdlmem,
                  lc |-> lc_commands, acc |-> accel_commands], data)} :
      /\ subscribed_vehicles' = h.subscribed
      /\ lane_change_mode' =
           [v \in Vehicles |->
               IF v \in newly_controlled THEN _TRACI_LC_MODE_V1
               ELSE IF v \in released_vehicles THEN _SUMO_DEFAULT_LC_MODE
               ELSE lane_change_mode[v]]
      /\ controlled_veh_ids' = controlled_assigned
      /\ cav_dissatisfaction_memory' = S.dmem
      /\ cav_cdl_distance_memory' = S.cdlmem
      /\ lc_commands' = S.lc
      /\ accel_commands' = S.acc
      /\ UNCHANGED cooperation_cooldowns

\* where the engine can put each vehicle: with the fixed policy lane 0 of
\* segment "6" is HML and lane 0 of segment "7" is CDL
V1Scenes ==
    [v \in Vehicles |->
        CASE v = "hv_1" -> {Running(<<6, 0>>, 200, 100),
                            Running(<<6, 1>>, 400, 100)}
          [] v = "hv_2" -> {Running(<<6, 1>>, 100, 100),
                            Running(<<6, 0>>, 100, 100)}
          [] v = "cav_1" -> {Running(<<7, 0>>, 600, 300),
                             Running(<<7, 1>>, 800, 300)}]

\* lane_manager.initialize_permissions();
\* lane_manager.apply_lane_strategy(FIXED_POLICY_M, FIXED_POLICY_N)
V1ApplyPolicy ==
    /\ pc = "start"
    /\ apply_lane_strategy(FIXED_POLICY_M, FIXED_POLICY_N)
    /\ pc' = "v1_sim"
    /\ UNCHANGED <<engineVars, ctlVars, motVars>>

\* while traci.simulation.getMinExpectedNumber() > 0: traci.simulationStep()
V1SimulationStep ==
    /\ pc = "v1_sim"
    /\ MinExpectedNumber > 0
    /\ SimulationStep(V1Scenes)
    /\ pc' = "v1_lm"
    /\ UNCHANGED <<laneVars, ctlVars, motVars>>

\* lane_manager.step()
V1LaneStep ==
    /\ pc = "v1_lm"
    /\ step
    /\ pc' = "v1_update"
    /\ UNCHANGED <<engineVars, ctlVars, motVars>>

\* veh_controller.update_vehicle_states(active_hml_lanes, active_cdl_lanes,
\* cdl_start)
V1Update ==
    /\ pc = "v1_update"
    /\ update_vehicle_states_V1(hml_lanes, cdl_lanes, get_cdl_start_edge)
    /\ pc' = "v1_sim"
    /\ UNCHANGED <<laneVars, veh_lane, veh_kin, sim_results, motVars>>

\* the loop ends; traci.close()
V1Close ==
    /\ pc = "v1_sim"
    /\ MinExpectedNumber = 0
    /\ pc' = "done"
    /\ Close
    /\ UNCHANGED <<laneVars, veh_lane, engineVars, ctlVars, evalVars>>

NextV1 == V1ApplyPolicy \/ V1SimulationStep \/ V1LaneStep \/ V1Update
             \/ V1Close

SpecV1 == InitVeh /\ [][NextV1]_vars

----------------------------------------------------------------------------
(* SpecDis: the run loop of main.py in MODE_CUSTOM with a CAV that is       *)
(* slower than it is allowed to be, from the start of the run until its     *)
(* dissatisfaction has crossed CUMULATIVE_DISSATISFACTION_S                  *)

\* the accumulated dissatisfaction up to which the run is followed, in
\* tenths of a second
MaxDissatisfactionDs == 43

\* the CAV stands, crawls or drives at the allowed speed on an HML lane, on a
\* CDL lane or on a middle lane; the allowed speed is 30 m/s or 1 m/s.  The
\* HV is ahead of it on the middle lane, standing, at 2 m/s, at 3 m/s (the
\* speed-gain threshold for the standing CAV) or at 10 m/s
DisScenes ==
    [v \in Vehicles |->
        CASE v = "cav_1" -> {RunningAt(<<6, 0>>, 200, 0, 300),
                             RunningAt(<<6, 0>>, 200, 150, 300),
                             RunningAt(<<6, 0>>, 200, 300, 300),
                             RunningAt(<<6, 0>>, 200, 0, 10),
                             RunningAt(<<7, 0>>, 200, 0, 300),
                             RunningAt(<<7, 0>>, 200, 300, 300),
                             RunningAt(<<6, 1>>, 200, 300, 300)}
          [] v = "hv_1" -> {Running(<<6, 1>>, 400, 0),
                            Running(<<6, 1>>, 400, 20),
                            Running(<<6, 1>>, 400, 30),
                            Running(<<6, 1>>, 400, 100)}
          [] v = "hv_2" -> {}]

DisSimulationStep ==
    /\ pc = "sim"
    /\ \A v \in DOMAIN cav_dissatisfaction_memory :
          RLe(cav_dissatisfaction_memory[v], Frac(MaxDissatisfactionDs, 10))
    /\ SimulationStep(DisScenes)
    /\ pc' = "lm_step"
    /\ UNCHANGED <<laneVars, ctlVars, motVars>>

NextDis == MainApplyPolicy \/ MainLaneStep \/ MainUpdate \/ DisSimulationStep

SpecDis == InitVeh /\ [][NextDis]_vars

----------------------------------------------------------------------------
(* SpecMot: _get_lane_change_motivation of V1.6 and of V4, evaluated for    *)
(* the vehicles of a snapshot under the lane sets of a policy               *)

\* evaluations made per run
MaxEvals == 2

MotPolicies ==
    {<<5, 5>>, <<0, 10>>, <<10, 0>>, <<0, 0>>, <<3, 4>>, <<2, 3>>, <<1, 4>>}

MotScenes ==
    [v \in Vehicles |->
        CASE v = "hv_1" -> {Running(l, p, s) :
                               l \in {<<6, 0>>, <<7, 0>>, <<11, 0>>, <<7, 1>>},
                               p \in {0, 200}, s \in {0, 100, 300}}
          [] v = "hv_2" -> {Pending}
          [] v = "cav_1" -> {Pending, Running(<<7, 0>>, 600, 100),
                             Running(<<7, 1>>, 600, 300),
                             Running(<<11, 0>>, 600, 100)}]

\* the dissatisfaction accumulated before the evaluation: none, and values
\* just below and just above CUMULATIVE_DISSATISFACTION_S
MotMemories ==
    {<<>>} \cup {[v \in Vehicles |-> d] : d \in {Frac(399, 100), Frac(401, 100)}}

InitMot ==
    /\ LaneManagerInit
    /\ allowed \in {[l \in AllLanes |-> ALL_VCLASSES]}
    /\ \E scene \in [Vehicles -> UNION {MotScenes[v] : v \in Vehicles}] :
          /\ \A v \in Vehicles : scene[v] \in MotScenes[v]
          /\ veh_lane = [v \in Vehicles |-> scene[v].lane]
          /\ veh_kin = [v \in Vehicles |-> Kin(scene[v])]
          /\ subscribed_vehicles = {v \in Vehicles : scene[v].phase = "running"}
    /\ sim_results = [arrived |-> {}, departed |-> {}]
    /\ lane_change_mode = [v \in Vehicles |-> _SUMO_DEFAULT_LC_MODE]
    /\ lc_commands = {}
    /\ accel_commands = {}
    /\ controlled_veh_ids = {}
    /\ cav_dissatisfaction_memory \in MotMemories
    /\ cav_cdl_distance_memory = <<>>
    /\ cooperation_cooldowns = <<>>
    /\ version \in {"V1.6", "V4"}
    /\ mot_out = NoOut
    /\ mot_count = 0
    /\ TTCIdle
    /\ CoopIdle
    /\ NbrIdle
    /\ RewIdle
    /\ PairIdle
    /\ GateIdle
    /\ RunIdle
    /\ pc = "mot"

\* the lane sets the evaluations are made under
MotPolicy ==
    /\ pc = "mot"
    /\ mot_count = 0
    /\ \E p \in MotPolicies : apply_lane_strategy(p[1], p[2])
    /\ UNCHANGED <<engineVars, ctlVars, pc, motVars>>

MotOut(veh_id, m) ==
    [veh |-> veh_id, prob_lc |-> m.prob_lc, coop_request |-> m.coop_request,
     target_lane_index |-> m.target_lane_index, direction |-> m.direction]

MotEvalV16 ==
    /\ pc = "mot"
    /\ version = "V1.6"
    /\ mot_count < MaxEvals
    /\ \E data \in {SubscriptionResults(subscribed_vehicles)} :
       \E veh_id \in DOMAIN data :
       \E r \in {_get_lane_change_motivation(veh_id, data[veh_id],
                    data[veh_id].VAR_LANE_ID, hml_lanes, cdl_lanes, middle_lanes,
                    get_cdl_start_edge, cav_dissatisfaction_memory,
                    cav_cdl_distance_memory, data)} :
          /\ mot_out' = MotOut(veh_id, r.m)
          /\ cav_dissatisfaction_memory' = r.dmem
          /\ cav_cdl_distance_memory' = r.cdlmem
    /\ mot_count' = mot_count + 1
    /\ UNCHANGED <<laneVars, veh_lane, engineVars, subscribed_vehicles,
                   controlled_veh_ids, cooperation_cooldowns, pc, version,
                   ttc_args, ttc_result, coop_call, gate_obs, gate_runs,
                   nbr_out, rew_acc, rew_out, apply_pair,
                   runVars>>

MotEvalV4 ==
    /\ pc = "mot"
    /\ version = "V4"
    /\ mot_count < MaxEvals
    /\ \E data \in {SubscriptionResults(subscribed_vehicles)} :
       \E veh_id \in DOMAIN data :
       \E r \in {_get_lane_change_motivation_V4(veh_id, data[veh_id],
                    data[veh_id].VAR_LANE_ID, hml_lanes, cdl_lanes,
                    get_cdl_start_edge, cav_dissatisfaction_memory,
                    cav_cdl_distance_memory, data)} :
          /\ mot_out' = MotOut(veh_id, r.m)
          /\ cav_dissatisfaction_memory' = r.dmem
          /\ cav_cdl_distance_memory' = r.cdlmem
    /\ mot_count' = mot_count + 1
    /\ UNCHANGED <<laneVars, veh_lane, engineVars, subscribed_vehicles,
                   controlled_veh_ids, cooperation_cooldowns, pc, version,
                   ttc_args, ttc_result, coop_call, gate_obs, gate_runs,
                   nbr_out, rew_acc, rew_out, apply_pair,
                   runVars>>

NextMot == MotPolicy \/ MotEvalV16 \/ MotEvalV4

SpecMot == InitMot /\ [][NextMot]_vars

----------------------------------------------------------------------------
(* SpecTTC: calculate_2d_ttc called with two state tuples                   *)

\* VEH_LENGTH and VEH_WIDTH of the calculator, in decimetres
VEH_LENGTH == vtype_cache[CavTypeId].length
VEH_WIDTH == vtype_cache[CavTypeId].width

\* state tuples (x, y, v, theta, l, w) of the ego vehicle i: at the origin,
\* standing or at 10 m/s, heading along x or along y; and tuples of a wrong
\* length
TTCStatesI ==
    {<<0, 0, v, theta, VEH_LENGTH, VEH_WIDTH>> : v \in {0, 100}, theta \in {0, 90}}
        \cup {<<>>, <<0, 0, 100>>}

\* state tuples of the other vehicle j: behind, level, 3 m and 30 m ahead;
\* in line, 1 m and one lane width to the side; slower, as fast, faster
TTCStatesJ ==
    {<<x, y, v, theta, VEH_LENGTH, VEH_WIDTH>> :
        x \in {-300, 0, 30, 300}, y \in {0, 10, Network.lane_width},
        v \in {50, 100, 150}, theta \in {0, 90}}
        \cup {<<>>, <<0, 0, 100, 0, VEH_LENGTH, VEH_WIDTH, 0>>}

InitTTC ==
    /\ LaneManagerInit
    /\ allowed \in {[l \in AllLanes |-> ALL_VCLASSES]}
    /\ veh_lane = [v \in Vehicles |-> NoLane]
    /\ EngineInit
    /\ VehicleControllerInit
    /\ version = "V1.6"
    /\ mot_out = NoOut
    /\ mot_count = 0
    /\ RunIdle
    /\ ttc_args \in TTCStatesI \X TTCStatesJ
    /\ ttc_result = <<>>
    /\ CoopIdle
    /\ NbrIdle
    /\ RewIdle
    /\ PairIdle
    /\ GateIdle
    /\ pc = "ttc"

\* ttc = calculate_2d_ttc(state_i, state_j)
TTCEval ==
    /\ pc = "ttc"
    /\ ttc_result' = <<calculate_2d_ttc(ttc_args[1], ttc_args[2])>>
    /\ pc' = "ttc_done"
    /\ UNCHANGED <<laneVars, veh_lane, engineVars, ctlVars, version, mot_out,
                   mot_count, ttc_args, coop_call, gate_obs, gate_runs,
                   nbr_out, rew_acc, rew_out, apply_pair,
                   runVars>>

NextTTC == TTCEval

SpecTTC == InitTTC /\ [][NextTTC]_vars

----------------------------------------------------------------------------
(* SpecErr: the run loop of main.py in MODE_CUSTOM with an engine whose     *)
(* connection can be lost.  From the call at which it is lost on, every     *)
(* TraCI call raises.  With the fixed policy hcl_lanes is empty, so         *)
(* lane_manager.step() makes no TraCI call.                                 *)

\* the connection is lost: "count" calls raise, and "late" are the calls made
\* after the first of them
Raise(count, late) ==
    /\ connection' = "lost"
    /\ run_log' = [run_log EXCEPT !.raised = @ + count, !.late = @ \cup late]
    /\ UNCHANGED env_clock

\* traci.simulation.getMinExpectedNumber() raises: except, finally
ErrLoopTest ==
    /\ pc = "lm_step"
    /\ Raise(1, {})
    /\ pc' = "finally"
    /\ UNCHANGED <<laneVars, veh_lane, engineVars, ctlVars, evalVars>>

\* update_vehicle_states: traci.simulation.getSubscriptionResults() raises in
\* _handle_subscriptions, which has no handler
ErrUpdate ==
    /\ pc = "update"
    /\ Raise(1, {})
    /\ pc' = "finally"
    /\ UNCHANGED <<laneVars, veh_lane, engineVars, ctlVars, evalVars>>

\* manage_dcdl_lane_changing gets as far as the safety check, and
\* _get_target_neighbors as far as its loop over search_edges
ReachesNeighborQuery(veh_data, m, draw_below) ==
    /\ m.prob_lc # Zero
    /\ m.target_lane_index # -1
    /\ ~(RLt(m.coop_request, One) /\ RandomAtLeast(m.prob_lc, draw_below))
    /\ veh_data.VAR_LANE_INDEX + m.direction >= 0
    /\ veh_data.VAR_LANE_INDEX + m.direction < LaneNumber
    /\ veh_data.VAR_ROAD_ID \in DOMAIN edge_to_order

\* the calls made after the first traci.lane.getLastStepVehicleIDs has raised
\* in the safety check of a vehicle: the same query for the other search
\* edges, and changeLane
CallsAfterNeighborQuery(veh_data) ==
    {"changeLane"} \cup
    (IF Cardinality(SearchEdges(veh_data.VAR_ROAD_ID,
                                edge_to_order[veh_data.VAR_ROAD_ID])) > 1
     THEN {"getLastStepVehicleIDs"} ELSE {})

\* update_vehicle_states in which the connection is lost at the neighbour
\* query of the safety check of veh_id, the vehicles before it in the loop
\* having left S.  The bare except of _get_target_neighbors swallows the error
\* of every search edge, the neighbours come out as (None, None), the lane
\* change is found safe and traci.vehicle.changeLane is called, which raises
LostAtNeighborQuery(h, S, veh_id, veh_data, mot, current_controlled_veh_ids, data) ==
    /\ AssessWith([tp |-> NoVeh, tf |-> NoVeh],
                  _format_state_from_sub(veh_id, veh_data),
                  effective_ttc_threshold(veh_data, hml_lanes), data).is_safe
    /\ subscribed_vehicles' = h.subscribed
    /\ lane_change_mode' =
         [v \in Vehicles |->
             IF v \in current_controlled_veh_ids \ h.controlled
             THEN _TRACI_LC_MODE
             ELSE IF v \in h.controlled \ current_controlled_veh_ids
                     /\ v \in DOMAIN data
             THEN _SUMO_DEFAULT_LC_MODE
             ELSE lane_change_mode[v]]
    /\ controlled_veh_ids' = current_controlled_veh_ids
    /\ cav_dissatisfaction_memory' = mot.dmem
    /\ cav_cdl_distance_memory' = mot.cdlmem
    /\ cooperation_cooldowns' = S.cool
    /\ lc_commands' = S.lc
    /\ accel_commands' = S.acc
    /\ Raise(Cardinality(SearchEdges(veh_data.VAR_ROAD_ID,
                                     edge_to_order[veh_data.VAR_ROAD_ID])) + 1,
             CallsAfterNeighborQuery(veh_data))

ErrUpdateNeighborQuery ==
    /\ pc = "update"
    /\ \E h \in {_handle_subscriptions(sim_results)} :
       \E data \in {SubscriptionResults(h.subscribed)} :
       \E current_controlled_veh_ids \in
            {{v \in DOMAIN data :
                 data[v].VAR_LANE_ID \in hml_lanes \cup cdl_lanes \cup middle_lanes}} :
       \E order \in Orders(current_controlled_veh_ids),
          draws \in [Drawers -> BOOLEAN] :
       \E k \in DOMAIN order :
       \E S \in {ManageAll(SubSeq(order, 1, k - 1),
                    [dmem |-> h.dmem, cdlmem |-> h.cdlmem,
                     cool |-> _tick_cooperation_cooldowns(h.cool),
                     lc |-> lc_commands, acc |-> accel_commands],
                    hml_lanes, cdl_lanes, middle_lanes, get_cdl_start_edge,
                    [v \in Vehicles |-> IF v \in Drawers THEN draws[v] ELSE FALSE],
                    data)} :
       \E mot \in {_get_lane_change_motivation(order[k], data[order[k]],
                       data[order[k]].VAR_LANE_ID, hml_lanes, cdl_lanes,
                       middle_lanes, get_cdl_start_edge, S.dmem, S.cdlmem,
                       data)} :
          /\ ReachesNeighborQuery(data[order[k]], mot.m,
                                  order[k] \in Drawers /\ draws[order[k]])
          /\ LostAtNeighborQuery(h, S, order[k], data[order[k]], mot,
                                 current_controlled_veh_ids, data)
    /\ pc' = "finally"
    /\ UNCHANGED <<laneVars, veh_lane, veh_kin, sim_results, evalVars>>

\* traci.simulationStep() raises
ErrSimulationStep ==
    /\ pc = "sim"
    /\ Raise(1, {})
    /\ pc' = "finally"
    /\ UNCHANGED <<laneVars, veh_lane, engineVars, ctlVars, evalVars>>

\* except traci.TraCIException: print; finally: traci.close()
ErrFinally ==
    /\ pc = "finally"
    /\ Close
    /\ pc' = "done"
    /\ UNCHANGED <<laneVars, veh_lane, engineVars, ctlVars, evalVars>>

NextErr == MainApplyPolicy \/ MainLaneStep \/ MainUpdate \/ MainSimulationStep
              \/ MainClose \/ ErrLoopTest \/ ErrUpdate \/ ErrUpdateNeighborQuery
              \/ ErrSimulationStep \/ ErrFinally

SpecErr == InitVeh /\ [][NextErr]_vars

----------------------------------------------------------------------------
(* SpecEnv: DCDLEnv.reset and DCDLEnv.step (V4, environment/dcdl_env.py).   *)
(* The LaneManager of V4 is not among the sources and the VehicleController *)
(* of V4 does not take the keyword is_custom_framework of the call; the     *)
(* LaneManager and the update_vehicle_states modelled are those of V1.6,    *)
(* called with the zone sets the environment passes and no middle lanes.    *)

\* config['control_interval_steps'] (600 in load_config) and
\* config['simulation_steps'] (21000), cut down, and the step() calls made in
\* an episode
EnvControlIntervalSteps == 2
EnvSimulationSteps == 5
MaxEnvCycles == 3

\* the actions: (num_cdl_lanes, num_hml_lanes) out of the two action spaces
EnvPolicies == {<<5, 5>>, <<0, 10>>, <<0, 0>>}

EnvScenes ==
    [v \in Vehicles |->
        CASE v = "hv_1" -> {Running(<<7, 0>>, 200, 100),
                            Running(<<6, 0>>, 200, 100)}
          [] v = "hv_2" -> {}
          [] v = "cav_1" -> {Running(<<7, 1>>, 600, 300)}]

\* reset(): initialize_permissions() and one traci.simulationStep()
EnvReset ==
    /\ pc = "start"
    /\ allowed' = [l \in AllLanes |-> ALL_VCLASSES]
    /\ middle_lanes' = MiddleLanes
    /\ SimulationStep(EnvScenes)
    /\ env_clock' = [cycle |-> 0, tick |-> 0, current_step |-> 1]
    /\ pc' = "env_idle"
    /\ UNCHANGED <<current_m, current_n, current_r, hml_lanes, cdl_lanes,
                   hcl_lanes, hcl_clearance_map, last_op, ctlVars, evalVars,
                   connection, run_log>>

\* step(actions): self.lane_manager.apply_lane_strategy(num_cdl_lanes,
\* num_hml_lanes)
EnvApply ==
    /\ pc = "env_idle"
    /\ env_clock.cycle < MaxEnvCycles
    /\ \E p \in EnvPolicies : apply_lane_strategy(p[1], p[2])
    /\ env_clock' = [env_clock EXCEPT !.cycle = @ + 1, !.tick = 0]
    /\ pc' = "env_loop"
    /\ UNCHANGED <<engineVars, ctlVars, evalVars, connection, run_log>>

\* for _ in range(self.control_interval_steps): if self.current_step >=
\* self.simulation_steps: break
EnvLoopGoesOn ==
    /\ env_clock.tick < EnvControlIntervalSteps
    /\ env_clock.current_step < EnvSimulationSteps

\* the zone sets the call of update_vehicle_states is given: the getters of
\* the lane manager, read when the call is made
EnvZonesAtConstruction ==
    [hml |-> {}, cdl |-> {}, cdl_start_edge |-> NoEdge]
EnvZones ==
    [hml |-> hml_lanes, cdl |-> cdl_lanes, cdl_start_edge |-> get_cdl_start_edge]

\* self.vehicle_controller.update_vehicle_states(get_active_hml_lanes(),
\* get_active_cdl_lanes(), get_cdl_start_edge(), ...)
EnvUpdate ==
    /\ pc = "env_loop"
    /\ EnvLoopGoesOn
    /\ update_vehicle_states(EnvZones.hml, EnvZones.cdl, {},
                             EnvZones.cdl_start_edge)
    /\ pc' = "env_lm"
    /\ UNCHANGED <<laneVars, veh_lane, veh_kin, sim_results, motVars>>

\* self.lane_manager.step()
EnvLaneStep ==
    /\ pc = "env_lm"
    /\ step
    /\ pc' = "env_sim"
    /\ UNCHANGED <<engineVars, ctlVars, motVars>>

\* traci.simulationStep(); self.current_step += 1
EnvSimulationStep ==
    /\ pc = "env_sim"
    /\ SimulationStep(EnvScenes)
    /\ env_clock' = [env_clock EXCEPT !.tick = @ + 1, !.current_step = @ + 1]
    /\ pc' = "env_loop"
    /\ UNCHANGED <<laneVars, ctlVars, evalVars, connection, run_log>>

\* the loop of step() ends and step() returns
EnvReturn ==
    /\ pc = "env_loop"
    /\ ~EnvLoopGoesOn
    /\ pc' = "env_idle"
    /\ UNCHANGED <<laneVars, veh_lane, engineVars, ctlVars, motVars>>

NextEnv == EnvReset \/ EnvApply \/ EnvUpdate \/ EnvLaneStep
              \/ EnvSimulationStep \/ EnvReturn

SpecEnv == InitVeh /\ [][NextEnv]_vars

----------------------------------------------------------------------------
(* SpecCoop: the run loop of main.py in MODE_CUSTOM with an HV that has to  *)
(* leave a CDL lane while a CAV drives behind or ahead of its gap on the     *)
(* middle lane                                                               *)

\* the HV is on the CDL lane of segment "7" at 10 m/s or at 30 m/s; the CAV
\* is on the middle lane 4 m behind it or 4 m ahead of it, at the allowed
\* speed or at 20 m/s; the second HV is on the middle lane as well, ahead of
\* both (and then the CAV's leader at several gaps) or right behind the
\* first HV
CoopScenes ==
    [v \in Vehicles |->
        CASE v = "hv_1" -> {Running(<<7, 0>>, 600, 100),
                            Running(<<7, 0>>, 600, 300)}
          [] v = "cav_1" -> {Running(<<7, 1>>, 560, 300),
                             RunningAt(<<7, 1>>, 560, 200, 200),
                             Running(<<7, 1>>, 640, 300)}
          [] v = "hv_2" -> {Running(<<7, 1>>, 850, 100),
                            Running(<<7, 1>>, 870, 100),
                            Running(<<7, 1>>, 1000, 100),
                            Running(<<7, 1>>, 1300, 100),
                            Running(<<7, 1>>, 580, 100)}]

CoopSimulationStep ==
    /\ pc = "sim"
    /\ SimulationStep(CoopScenes)
    /\ pc' = "lm_step"
    /\ UNCHANGED <<laneVars, ctlVars, motVars>>

NextCoop == MainApplyPolicy \/ MainLaneStep \/ MainUpdate \/ CoopSimulationStep
              \/ MainClose

SpecCoop == InitVeh /\ [][NextCoop]_vars

----------------------------------------------------------------------------
(* SpecNeg: attempt_lane_change_cooperation called with the gaps of a       *)
(* failed safety check, for every way the two neighbour slots can be filled *)

\* the ego, and the vehicles in the predecessor and in the follower slot
NegEgo == "hv_1"
NegPredecessor == "front"
NegFollower == "back"

\* all_veh_data of a neighbour: an HV or a CAV at 10 m/s or at 30 m/s, with
\* no leader or with a leader below, at and above its safe distance
\* (12.5 m and 32.5 m), at and above 1.1 and 1.2 times that distance
NegNeighborData ==
    [VAR_TYPE : {HvTypeId, CavTypeId}, VAR_SPEED : {100, 300},
     VAR_LEADER : {NoLeader} \cup
                  {<<"lead", g>> : g \in {100, 123, 125, 130, 140, 150, 151, 400}}]

\* all_veh_data for the slots that are filled; a vehicle named by a slot can
\* be missing from it
NegData(tp_id, tf_id) ==
    UNION {[ids -> NegNeighborData] :
              ids \in SUBSET ({tp_id, tf_id} \ {NoVeh})}

\* cooperation_cooldowns: nobody cooling down, or one of the neighbours
NegCooldowns ==
    {<<>>} \cup {[v \in {n} |-> 3] : n \in {NegPredecessor, NegFollower}}

InitNeg ==
    /\ LaneManagerInit
    /\ allowed \in {[l \in AllLanes |-> ALL_VCLASSES]}
    /\ veh_lane = [v \in Vehicles |-> NoLane]
    /\ EngineInit
    /\ subscribed_vehicles = {}
    /\ controlled_veh_ids = {}
    /\ cav_dissatisfaction_memory = <<>>
    /\ cav_cdl_distance_memory = <<>>
    /\ cooperation_cooldowns \in NegCooldowns
    /\ version = "V1.6"
    /\ mot_out = NoOut
    /\ mot_count = 0
    /\ TTCIdle
    /\ GateIdle
    /\ NbrIdle
    /\ RewIdle
    /\ PairIdle
    /\ RunIdle
    /\ \E tp_id \in {NoVeh, NegPredecessor}, tf_id \in {NoVeh, NegFollower} :
          coop_call \in [gaps : {[tp |-> tp_id, tf |-> tf_id]},
                         data : NegData(tp_id, tf_id)]
    /\ pc = "neg"

\* self.attempt_lane_change_cooperation(veh_id, veh_data, gaps)
NegEval ==
    /\ pc = "neg"
    /\ \E S \in {attempt_lane_change_cooperation(
                    [dmem |-> cav_dissatisfaction_memory,
                     cdlmem |-> cav_cdl_distance_memory,
                     cool |-> cooperation_cooldowns,
                     lc |-> lc_commands, acc |-> accel_commands],
                    NegEgo, <<>>, coop_call.gaps, coop_call.data)} :
          /\ cooperation_cooldowns' = S.cool
          /\ accel_commands' = S.acc
          /\ lc_commands' = S.lc
    /\ pc' = "neg_done"
    /\ UNCHANGED <<laneVars, veh_lane, veh_kin, sim_results, lane_change_mode,
                   subscribed_vehicles, controlled_veh_ids,
                   cav_dissatisfaction_memory, cav_cdl_distance_memory,
                   evalVars, runVars>>

NextNeg == NegEval

SpecNeg == InitNeg /\ [][NextNeg]_vars

----------------------------------------------------------------------------
(* SpecNbr: _get_target_neighbors called for one tracked vehicle and one     *)
(* direction, with the vehicles spread over the lanes of a few segments.     *)

\* where each vehicle stands: segment "7" and its neighbours "6" and "8",
\* segments further away, the first and the last control segment, and the
\* edge "12" downstream of the control segments
NbrScenes ==
    [v \in Vehicles |->
        CASE v = "hv_1" -> {Running(<<7, 0>>, 1000, 100),
                            Running(<<7, 1>>, 1000, 100),
                            Running(<<7, 2>>, 1000, 100),
                            Running(<<2, 0>>, 1000, 100),
                            Running(<<11, 0>>, 1000, 100),
                            Running(<<12, 0>>, 1000, 100)}
          [] v = "hv_2" -> {Running(<<7, 1>>, 1500, 100),
                            Running(<<7, 1>>, 1000, 100),
                            Running(<<7, 1>>, 400, 100),
                            Running(<<8, 1>>, 100, 100),
                            Running(<<6, 1>>, 1900, 100),
                            Running(<<5, 1>>, 1900, 100),
                            Running(<<9, 1>>, 100, 100)}
          [] v = "cav_1" -> {Running(<<7, 1>>, 1200, 100),
                             Running(<<8, 1>>, 300, 100),
                             Running(<<6, 1>>, 1700, 100),
                             Running(<<3, 1>>, 500, 100),
                             Running(<<10, 1>>, 500, 100),
                             Running(<<12, 1>>, 500, 100),
                             Pending}]

\* no two vehicles of the engine stand at one place
NbrApart ==
    \A u, w \in Vehicles :
        (u # w /\ InSimulation(u) /\ veh_lane[u] = veh_lane[w])
            => veh_kin[u].pos # veh_kin[w].pos

InitNbr ==
    /\ LaneManagerInit
    /\ allowed \in {[l \in AllLanes |-> ALL_VCLASSES]}
    /\ \E scene \in [Vehicles -> UNION {NbrScenes[v] : v \in Vehicles}] :
          /\ \A v \in Vehicles : scene[v] \in NbrScenes[v]
          /\ veh_lane = [v \in Vehicles |-> scene[v].lane]
          /\ veh_kin = [v \in Vehicles |-> Kin(scene[v])]
    /\ NbrApart
    /\ subscribed_vehicles \in SUBSET {v \in Vehicles : InSimulation(v)}
    /\ sim_results = [arrived |-> {}, departed |-> {}]
    /\ lane_change_mode = [v \in Vehicles |-> _SUMO_DEFAULT_LC_MODE]
    /\ lc_commands = {}
    /\ accel_commands = {}
    /\ controlled_veh_ids = {}
    /\ cav_dissatisfaction_memory = <<>>
    /\ cav_cdl_distance_memory = <<>>
    /\ cooperation_cooldowns = <<>>
    /\ version = "V1.6"
    /\ mot_out = NoOut
    /\ mot_count = 0
    /\ TTCIdle
    /\ CoopIdle
    /\ NbrIdle
    /\ RewIdle
    /\ PairIdle
    /\ GateIdle
    /\ RunIdle
    /\ pc = "nbr"

\* self._get_target_neighbors(veh_id, veh_data, direction)
NbrEval ==
    /\ pc = "nbr"
    /\ \E data \in {SubscriptionResults(subscribed_vehicles)} :
       \E veh_id \in DOMAIN data, direction \in {-_LC_DIR_LEFT, _LC_DIR_LEFT} :
       \E found \in {_get_target_neighbors(veh_id, data[veh_id], direction, data)} :
          nbr_out' = [veh_id |-> veh_id, direction |-> direction,
                      tp |-> found.tp, tf |-> found.tf]
    /\ pc' = "nbr_done"
    /\ UNCHANGED <<laneVars, veh_lane, engineVars, ctlVars, version, mot_out,
                   mot_count, ttc_args, ttc_result, coop_call, gate_obs,
                   gate_runs, rew_acc, rew_out, apply_pair, runVars>>

NextNbr == NbrEval

SpecNbr == InitNbr /\ [][NextNbr]_vars

----------------------------------------------------------------------------
(* SpecGate: two runs of the controller over the same engine observations.  *)
(* Both start from random.seed(_PY_RANDOM_SEED); each iterates the set      *)
(* controlled_veh_ids of a tick in an order of its own.                     *)

\* ticks per run
MaxGateTicks == 2

GateRuns == {1, 2}
GateVehicles == {"cav_1", "cav_2"}

\* random.seed(9497): the values random.random() returns from then on, cut to
\* thousandths
RandomStream ==
    <<Frac(317, 1000), Frac(441, 1000), Frac(697, 1000), Frac(494, 1000),
      Frac(141, 1000), Frac(515, 1000), Frac(238, 1000), Frac(593, 1000)>>

\* what manage_dcdl_lane_changing finds for one vehicle in one tick: the
\* motivation, and is_safe of the safety check.  A CAV with motivation 0.4
\* whose change is safe or not, and one with motivation 1.0
GateFindings ==
    {[prob_lc |-> Frac(2, 5), coop_request |-> Zero, target_lane_index |-> 1,
      is_safe |-> b] : b \in BOOLEAN}
      \cup {[prob_lc |-> One, coop_request |-> One, target_lane_index |-> 1,
             is_safe |-> TRUE]}

\* the findings of one tick, for the vehicles controlled in it
GateTickFindings ==
    UNION {[ids -> GateFindings] : ids \in SUBSET GateVehicles}

InitGate ==
    /\ LaneManagerInit
    /\ allowed \in {[l \in AllLanes |-> ALL_VCLASSES]}
    /\ veh_lane = [v \in Vehicles |-> NoLane]
    /\ EngineInit
    /\ VehicleControllerInit
    /\ version = "V1.6"
    /\ mot_out = NoOut
    /\ mot_count = 0
    /\ TTCIdle
    /\ CoopIdle
    /\ NbrIdle
    /\ RewIdle
    /\ PairIdle
    /\ RunIdle
    /\ gate_obs \in [1..MaxGateTicks -> GateTickFindings]
    /\ gate_runs = [r \in GateRuns |-> [drawn |-> 0, ticks |-> <<>>]]
    /\ pc = "gate"

\* manage_dcdl_lane_changing for one vehicle, from the gate on.  G is what
\* the tick has done so far: samples drawn by the run, the sample each
\* vehicle got, and the changeLane commands
GateOne(G, veh_id, m) ==
    IF m.prob_lc = Zero \/ m.target_lane_index = -1 THEN G
    ELSE IF ~RLt(m.coop_request, One)
    THEN IF m.is_safe
         THEN [G EXCEPT !.lc = @ \cup {[veh_id |-> veh_id,
                                        target_lane |-> m.target_lane_index]}]
         ELSE G
    ELSE IF RandomAtLeast(m.prob_lc, RLt(RandomStream[G.drawn + 1], m.prob_lc))
            \/ ~m.is_safe
    THEN [G EXCEPT !.drawn = @ + 1,
                   !.sample = Put(@, veh_id, RandomStream[G.drawn + 1])]
    ELSE [G EXCEPT !.drawn = @ + 1,
                   !.sample = Put(@, veh_id, RandomStream[G.drawn + 1]),
                   !.lc = @ \cup {[veh_id |-> veh_id,
                                   target_lane |-> m.target_lane_index]}]

\* for veh_id in self.controlled_veh_ids, in the order the set is iterated
RECURSIVE GateAll(_, _, _)
GateAll(order, G, found) ==
    IF order = <<>> THEN G
    ELSE GateAll(Tail(order), GateOne(G, Head(order), found[Head(order)]),
                 found)

\* one update_vehicle_states of run r
GateTick(r) ==
    /\ pc = "gate"
    /\ Len(gate_runs[r].ticks) < MaxGateTicks
    /\ \E found \in {gate_obs[Len(gate_runs[r].ticks) + 1]} :
       \E order \in Orders(DOMAIN found) :
       \E G \in {GateAll(order,
                         [drawn |-> gate_runs[r].drawn, sample |-> <<>>,
                          lc |-> {}, order |-> order],
                         found)} :
          gate_runs' = [gate_runs EXCEPT ![r] =
                           [drawn |-> G.drawn,
                            ticks |-> Append(@.ticks,
                                             [order |-> G.order,
                                              sample |-> G.sample,
                                              lc |-> G.lc])]]
    /\ UNCHANGED <<laneVars, veh_lane, engineVars, ctlVars, pc, version,
                   mot_out, mot_count, ttc_args, ttc_result, coop_call,
                   gate_obs, nbr_out, rew_acc, rew_out, apply_pair,
                   runVars>>

NextGate == \E r \in GateRuns : GateTick(r)

SpecGate == InitGate /\ [][NextGate]_vars

----------------------------------------------------------------------------
(* Properties of the LaneManager *)

\* the controlled lanes of the segments with index in a .. b - 1
SegmentLanes(a, b) ==
    {<<i + 2, 0>> : i \in {j \in 0..(TOTAL_SCL_COUNT - 1) : a <= j /\ j < b}}

\* this step is a call of apply_lane_strategy / of step
IsApplyCall == last_op'.op = "apply" /\ veh_lane' = veh_lane
IsStepCall == last_op'.op = "step" /\ veh_lane' = veh_lane

\* an HV-class vehicle of the engine is on the lane
HVOn(l) ==
    \E v \in {"hv_1", "hv_2"} : veh_lane[v] = l /\ VehicleClass[v] = "custom1"

\* C1: a request with m >= 0, n >= 0 and m + n <= TOTAL, made in any reachable
\* state, returns with r + n + m = TOTAL, the requested m and n stored,
\* |hml_lanes| = n, |cdl_lanes| = m, and no lane and no segment in both sets
C1_ValidRequestPartition ==
    (last_op.op = "apply" /\ last_op.m >= 0 /\ last_op.n >= 0
        /\ last_op.m + last_op.n <= TOTAL_SCL_COUNT)
    => /\ ~last_op.raised
       /\ current_m = last_op.m
       /\ current_n = last_op.n
       /\ current_r + current_n + current_m = TOTAL_SCL_COUNT
       /\ Cardinality(hml_lanes) = current_n
       /\ Cardinality(cdl_lanes) = current_m
       /\ hml_lanes \cap cdl_lanes = {}
       /\ {l[1] : l \in hml_lanes} \cap {l[1] : l \in cdl_lanes} = {}
       /\ Cardinality({l[1] : l \in hml_lanes \cup cdl_lanes})
            = current_n + current_m

\* a valid request made while HCL lanes are being tracked has acted
C1_Witness ==
    /\ last_op.op = "apply" /\ last_op.m = 3 /\ last_op.n = 4
    /\ current_r = 3
    /\ hml_lanes = SegmentLanes(3, 7)
    /\ cdl_lanes = SegmentLanes(7, 10)
    /\ hcl_lanes # {}

\* C2: a call of apply_lane_strategy leaves in hcl_lanes exactly the controlled
\* lanes of the segments whose index is in the HML range [r, r + n) of before
\* the call and in the CDL range [r' + n', TOTAL) of after it; from the fresh
\* state this is the empty set, and from (r, n, m) = (0, 10, 0) the request
\* (5, 5) gives the last five segments
C2_HclIsIntersection ==
    [][IsApplyCall =>
        /\ hcl_lanes' = SegmentLanes(current_r, current_r + current_n)
                            \cap SegmentLanes(current_r' + current_n',
                                              TOTAL_SCL_COUNT)
        /\ (current_r = TOTAL_SCL_COUNT /\ current_n = 0 /\ current_m = 0)
              => hcl_lanes' = {}
        /\ (current_r = 0 /\ current_n = 10 /\ current_m = 0
              /\ last_op'.m = 5 /\ last_op'.n = 5)
              => /\ cdl_lanes' = SegmentLanes(5, 10)
                 /\ hcl_lanes' = SegmentLanes(5, 10)]_vars

\* apply_lane_strategy(5, 5) has left the last five segments in hcl_lanes
C2_Witness ==
    /\ last_op.op = "apply" /\ last_op.m = 5 /\ last_op.n = 5
    /\ current_r = 0 /\ current_n = 5 /\ current_m = 5
    /\ hcl_lanes = SegmentLanes(5, 10)
    /\ DOMAIN hcl_clearance_map = hcl_lanes

\* C3, as stated: a call of step() made while no HV-class vehicle is on an
\* HCL lane removes the lane, and while an HV-class vehicle is on it no call
\* of the LaneManager (step or a further apply_lane_strategy) removes it
C3_NoCallRemovesOccupied ==
    [][\A l \in hcl_lanes :
          /\ (IsStepCall /\ ~HVOn(l)) => l \notin hcl_lanes'
          /\ (HVOn(l) /\ veh_lane' = veh_lane) => l \in hcl_lanes']_vars

\* C3, as the code has it: step() removes from hcl_lanes (and from the
\* clearance map) exactly the lanes with no HV-class vehicle on them, so a lane
\* leaves at the first step() that finds it free of HVs and step() never
\* removes an occupied one; an occupied lane leaves hcl_lanes only in a call of
\* apply_lane_strategy or reset_to_mixed_traffic, which rebuild the set
C3_StepRemovesExactlyFreeLanes ==
    [][/\ IsStepCall =>
             /\ hcl_lanes' = {l \in hcl_lanes : HVOn(l)}
             /\ DOMAIN hcl_clearance_map' =
                   {l \in DOMAIN hcl_clearance_map : HVOn(l)}
       /\ \A l \in hcl_lanes :
             (l \notin hcl_lanes' /\ HVOn(l))
                => (veh_lane' = veh_lane /\ last_op'.op \in {"apply", "reset"})
      ]_vars

\* step() has removed the free HCL lanes and kept the one an HV stands on
C3_Witness ==
    /\ last_op.op = "step" /\ last_op.cleared
    /\ hcl_lanes # {}
    /\ \A l \in hcl_lanes : HVOn(l)

\* C4: whatever integers are requested, the stored m is the request clamped into
\* [0, TOTAL], the stored n the request clamped into [0, TOTAL - m], and
\* r, n, m >= 0 with r + n + m = TOTAL in every reachable state
C4_ClampedForAllIntegers ==
    /\ current_r >= 0 /\ current_n >= 0 /\ current_m >= 0
    /\ current_r + current_n + current_m = TOTAL_SCL_COUNT
    /\ last_op.op = "apply" =>
          /\ current_m = Max(0, Min(last_op.m, TOTAL_SCL_COUNT))
          /\ current_n = Max(0, Min(last_op.n, TOTAL_SCL_COUNT - current_m))

\* C5: a request with m + n > TOTAL returns without raising and stores
\* m' = min(m, TOTAL), n' = min(n, TOTAL - m'), r' = TOTAL - m' - n', with
\* |hml_lanes| = n', |cdl_lanes| = m' and the two sets disjoint
C5_OverBudgetClamped ==
    (last_op.op = "apply" /\ last_op.m + last_op.n > TOTAL_SCL_COUNT)
    => /\ ~last_op.raised
       /\ current_m = Min(last_op.m, TOTAL_SCL_COUNT)
       /\ current_n = Min(last_op.n, TOTAL_SCL_COUNT - current_m)
       /\ current_r = TOTAL_SCL_COUNT - current_m - current_n
       /\ Cardinality(hml_lanes) = current_n
       /\ Cardinality(cdl_lanes) = current_m
       /\ hml_lanes \cap cdl_lanes = {}

\* an over-budget request has been cut down to (m', n') = (6, 4)
C5_Witness ==
    /\ last_op.op = "apply" /\ last_op.m = 6 /\ last_op.n = 5
    /\ current_m = 6 /\ current_n = 4 /\ current_r = 0

\* C6: in every state reached by calls of apply_lane_strategy, step and
\* reset_to_mixed_traffic in any order, hml_lanes and cdl_lanes are disjoint
\* and hcl_lanes is a subset of cdl_lanes
C6_ZoneSetsInvariant ==
    /\ hml_lanes \cap cdl_lanes = {}
    /\ hcl_lanes \subseteq cdl_lanes

\* all three sets are non-empty after a step() that kept an occupied HCL lane
C6_Witness ==
    /\ last_op.op = "step"
    /\ hml_lanes # {} /\ hcl_lanes # {} /\ hcl_lanes # cdl_lanes

\* the engine's permission of each lane of the control segments, read off
\* cdl_lanes
PermissionsFollowCdl ==
    \A l \in AllLanes :
        /\ l \in cdl_lanes <=> allowed[l] = {"custom2"}
        /\ l \notin cdl_lanes => allowed[l] = {"custom1", "custom2"}

\* C7: from the return of a call of apply_lane_strategy on, a lane of a control
\* segment allows the CAV class only if and only if it is in cdl_lanes (its
\* HCL lanes included); every other lane, the HML lanes included, allows both
\* classes
C7_PermissionsFollowCdl ==
    [][/\ IsApplyCall => PermissionsFollowCdl'
       /\ PermissionsFollowCdl => PermissionsFollowCdl']_vars

\* a step() after an apply: HML lanes open, CDL and HCL lanes CAV-only
C7_Witness ==
    /\ last_op.op = "step"
    /\ hml_lanes # {} /\ hcl_lanes # {}
    /\ \A l \in hml_lanes : allowed[l] = {"custom1", "custom2"}
    /\ \A l \in hcl_lanes : allowed[l] = {"custom2"}

----------------------------------------------------------------------------
(* Properties of the VehicleController *)

\* C8: in the V1.6 and in the V4 arbiter, _get_lane_change_motivation gives
\* every HV-class vehicle whose current lane is in cdl_lanes or hml_lanes the
\* motivation 1.0 and the cooperation request 1.0, whatever its speed, its
\* position, its lane and the state of the accumulator
C8_HvOnRestrictedLaneMustExit ==
    (/\ mot_out.veh # NoVeh
     /\ VehicleClass[mot_out.veh] = VCLASS_HV
     /\ veh_lane[mot_out.veh] \in cdl_lanes \cup hml_lanes)
    => (mot_out.prob_lc = One /\ mot_out.coop_request = One)

\* the V4 arbiter has evaluated a standing HV on a CDL lane whose accumulator
\* entry is above the dissatisfaction threshold
C8_Witness ==
    /\ version = "V4"
    /\ mot_out.veh = "hv_1"
    /\ veh_lane["hv_1"] \in cdl_lanes
    /\ veh_kin["hv_1"].speed = 0
    /\ "hv_1" \in DOMAIN cav_dissatisfaction_memory
    /\ RLt(Num(CUMULATIVE_DISSATISFACTION_S), cav_dissatisfaction_memory["hv_1"])
    /\ mot_out.prob_lc = One
    /\ mot_out.coop_request = One

\* what the safety check finds for vehicle v in the snapshot of this tick
TickAssessment(v) ==
    _assess_lane_change_safety_2D_TTC(v, SubscriptionData(v), _LC_DIR_LEFT,
        hml_lanes, SubscriptionResults(subscribed_vehicles))

\* changeLane was called for v in this tick
HasLaneChangeCommand(v) == \E c \in lc_commands : c.veh_id = v

BothAbove(a) == RLt(a.threshold, a.ttc_tp) /\ RLt(a.threshold, a.ttc_tf)

\* C9: after update_vehicle_states, a vehicle has a changeLane command of this
\* tick only if the 2D-TTC between it and the predecessor on the target lane
\* and the 2D-TTC between the follower on the target lane and it are both
\* strictly greater than the threshold that applies to it; a vehicle for
\* which one of the two is at or below the threshold has no such command
C9_LaneChangeOnlyIfBothTTCAbove ==
    pc = "sim" =>
        /\ \A c \in lc_commands : c.veh_id \in subscribed_vehicles
                                     /\ InSimulation(c.veh_id)
        /\ \A v \in {u \in subscribed_vehicles : InSimulation(u)} :
              /\ HasLaneChangeCommand(v) => BothAbove(TickAssessment(v))
              /\ (\/ RLe(TickAssessment(v).ttc_tp, TickAssessment(v).threshold)
                  \/ RLe(TickAssessment(v).ttc_tf, TickAssessment(v).threshold))
                 => ~HasLaneChangeCommand(v)

\* in one tick an HV whose TTC to the predecessor is a finite value above the
\* threshold is commanded to change lane, and an HV whose TTC to the same
\* predecessor is exactly the threshold is not
C9_Witness ==
    /\ pc = "sim"
    /\ InSimulation("hv_1") /\ InSimulation("hv_2")
    /\ HasLaneChangeCommand("hv_2")
    /\ TickAssessment("hv_2").ttc_tp # Inf
    /\ TickAssessment("hv_2").tp = "cav_1"
    /\ ~HasLaneChangeCommand("hv_1")
    /\ TickAssessment("hv_1").ttc_tp = TickAssessment("hv_1").threshold
    /\ TickAssessment("hv_1").tp = "cav_1"

\* this step is one update_vehicle_states
IsUpdate == pc = "update" /\ pc' = "sim"

\* the setAcceleration commands of this tick that address vehicle v
CoopCommandsTo(v) == {c \in accel_commands : c.target = v}

\* C10: a vehicle that receives a cooperation command has its cooldown counter
\* set to _COOP_COOLDOWN_STEPS, it receives at most one such command per tick
\* whatever the number of egos, and it receives none in a tick in which its
\* counter is still positive when the negotiator reads it (that is, after the
\* decrement that opens the tick: a counter above 1 before it)
C10_CooldownBlocksCooperation ==
    [][IsUpdate =>
        \A v \in Vehicles :
           /\ Cardinality(CoopCommandsTo(v)') <= 1
           /\ CoopCommandsTo(v)' # {} =>
                 /\ v \in DOMAIN cooperation_cooldowns'
                 /\ cooperation_cooldowns'[v] = _COOP_COOLDOWN_STEPS
           /\ (v \in DOMAIN cooperation_cooldowns /\ cooperation_cooldowns[v] > 1)
                 => CoopCommandsTo(v)' = {}]_vars

\* the CAV is half way through its cooldown, an HV on a restricted lane finds
\* its lane change unsafe with that CAV as predecessor, and no cooperation
\* command was sent in the tick
C10_Witness ==
    /\ pc = "sim"
    /\ "cav_1" \in DOMAIN cooperation_cooldowns
    /\ cooperation_cooldowns["cav_1"] = 5
    /\ accel_commands = {}
    /\ \E ego \in {"hv_1", "hv_2"} :
          /\ InSimulation(ego)
          /\ veh_lane[ego] \in cdl_lanes \cup hml_lanes
          /\ ~TickAssessment(ego).is_safe
          /\ TickAssessment(ego).tp = "cav_1"

----------------------------------------------------------------------------
(* Properties of the dissatisfaction accumulator *)

\* cav_dissatisfaction_memory.get(veh_id, 0.0)
Accumulated(memory, v) == Get(memory, v, Zero)

\* all_veh_data of the update_vehicle_states call that starts in this state
TickData == SubscriptionResults(_handle_subscriptions(sim_results).subscribed)

\* what _get_lane_change_motivation returns for v in that call
TickMotivation(v) ==
    _get_lane_change_motivation(v, TickData[v], TickData[v].VAR_LANE_ID,
        hml_lanes, cdl_lanes, middle_lanes, get_cdl_start_edge,
        cav_dissatisfaction_memory, cav_cdl_distance_memory, TickData).m

\* v is a CAV that update_vehicle_states evaluates in the tick that starts in
\* this state: it is in the snapshot, on an HML, a CDL or a middle lane
EvaluatedCav(v) ==
    /\ v \in DOMAIN TickData
    /\ ~StartsWith(TickData[v].VAR_TYPE, HvTypeId)
    /\ TickData[v].VAR_LANE_ID \in hml_lanes \cup cdl_lanes \cup middle_lanes
    /\ TickData[v].VAR_LANE_INDEX + 1 < LaneNumber

\* the accumulator of v after the step is below the one before it
Lowered(v) ==
    /\ v \in DOMAIN cav_dissatisfaction_memory
    /\ v \in DOMAIN cav_dissatisfaction_memory'
    /\ RLt(cav_dissatisfaction_memory'[v], cav_dissatisfaction_memory[v])

\* C11 as stated: the accumulator of a vehicle never goes down from one tick
\* to the next, except to zero in a tick in which a lane-change command
\* (changeLane) is issued for the vehicle
C11_LoweredOnlyWithLaneChange ==
    [][\A v \in Vehicles :
          Lowered(v) => /\ cav_dissatisfaction_memory'[v] = Zero
                        /\ HasLaneChangeCommand(v)']_vars

\* C11 as amended: the accumulator of a vehicle never goes down from one tick
\* to the next, except to zero in an update_vehicle_states call in which the
\* vehicle's motivation comes out as 1.0 (with the cooperation request 1.0),
\* whether or not changeLane is then called for it
C11_LoweredOnlyAtFullMotivation ==
    [][\A v \in Vehicles :
          Lowered(v) => /\ IsUpdate
                        /\ cav_dissatisfaction_memory'[v] = Zero
                        /\ v \in DOMAIN TickData
                        /\ TickMotivation(v).prob_lc = One
                        /\ TickMotivation(v).coop_request = One]_vars

\* the standing CAV was evaluated in this tick with the HV 20 m ahead on the
\* target lane at 10 m/s: its accumulator was reset (the evaluation adds 0.1 s
\* before it resets), the lane change was found unsafe and no changeLane was
\* sent
C11_Witness ==
    /\ pc = "sim"
    /\ veh_lane["cav_1"] \in hml_lanes
    /\ veh_kin["cav_1"].speed = 0
    /\ veh_kin["cav_1"].allowed = 300
    /\ "cav_1" \in DOMAIN cav_dissatisfaction_memory
    /\ cav_dissatisfaction_memory["cav_1"] = Zero
    /\ InSimulation("hv_1")
    /\ TickAssessment("cav_1").tp = "hv_1"
    /\ ~TickAssessment("cav_1").is_safe
    /\ ~HasLaneChangeCommand("cav_1")

\* the evaluation of v in this step adds d to its accumulator: the accumulator
\* holds the sum, or zero when the sum is above CUMULATIVE_DISSATISFACTION_S
\* and the evaluation reset it
AddsToAccumulator(v, d) ==
    \/ Accumulated(cav_dissatisfaction_memory', v)
          = RAdd(Accumulated(cav_dissatisfaction_memory, v), d)
    \/ /\ Accumulated(cav_dissatisfaction_memory', v) = Zero
       /\ RLt(Num(CUMULATIVE_DISSATISFACTION_S),
              RAdd(Accumulated(cav_dissatisfaction_memory, v), d))

\* C12 as stated: an evaluation of a CAV that stands (speed 0) and has a
\* desired speed above 0 adds exactly SIM_STEP_S to its accumulator, until the
\* accumulator has crossed CUMULATIVE_DISSATISFACTION_S (an evaluation that
\* brings it above the threshold may reset it)
C12_StandingCavGainsStepLength ==
    [][IsUpdate =>
        \A v \in Vehicles :
           (/\ EvaluatedCav(v)
            /\ TickData[v].VAR_SPEED = 0
            /\ TickData[v].VAR_ALLOWED_SPEED > 0)
           => AddsToAccumulator(v, SIM_STEP_S)]_vars

\* C12 as amended: the same for a desired speed above 1 m/s, the low-speed
\* guard of _calculate_cav_hml_motivation; at a desired speed of 1 m/s or less
\* the evaluation adds nothing
C12_StandingCavAboveGuardGainsStepLength ==
    [][IsUpdate =>
        \A v \in Vehicles :
           (EvaluatedCav(v) /\ TickData[v].VAR_SPEED = 0)
           => AddsToAccumulator(v, IF TickData[v].VAR_ALLOWED_SPEED > Dm(1)
                                   THEN SIM_STEP_S ELSE Zero)]_vars

\* the standing CAV, allowed 30 m/s, has been evaluated 41 times: the
\* accumulator stands at 4.1 s, just across the threshold of 4 s
C12_Witness ==
    /\ pc = "sim"
    /\ veh_lane["cav_1"] \in hml_lanes
    /\ veh_kin["cav_1"].speed = 0
    /\ veh_kin["cav_1"].allowed = 300
    /\ "cav_1" \in DOMAIN cav_dissatisfaction_memory
    /\ cav_dissatisfaction_memory["cav_1"] = Frac(41, 10)

\* C13: an update_vehicle_states call in which a CAV drives at exactly its
\* desired (allowed) speed does not increase the accumulator of that CAV,
\* whatever the zone of its lane and whatever the accumulator holds
C13_AtDesiredSpeedNoIncrease ==
    [][IsUpdate =>
        \A v \in Vehicles :
           (/\ v \in DOMAIN TickData
            /\ ~StartsWith(TickData[v].VAR_TYPE, HvTypeId)
            /\ TickData[v].VAR_SPEED = TickData[v].VAR_ALLOWED_SPEED)
           => RLe(Accumulated(cav_dissatisfaction_memory', v),
                  Accumulated(cav_dissatisfaction_memory, v))]_vars

\* the CAV was evaluated on a CDL lane at its desired speed with 2 s of
\* dissatisfaction from earlier ticks, and still holds exactly 2 s
C13_Witness ==
    /\ pc = "sim"
    /\ veh_lane["cav_1"] \in cdl_lanes
    /\ veh_kin["cav_1"].speed = veh_kin["cav_1"].allowed
    /\ "cav_1" \in controlled_veh_ids
    /\ "cav_1" \in DOMAIN cav_dissatisfaction_memory
    /\ cav_dissatisfaction_memory["cav_1"] = Num(2)

(* Properties of the arrival clean-up *)

\* v is in none of the five per-vehicle collections of the controller
Forgotten(v) ==
    /\ v \notin subscribed_vehicles
    /\ v \notin controlled_veh_ids
    /\ v \notin DOMAIN cav_dissatisfaction_memory
    /\ v \notin DOMAIN cav_cdl_distance_memory
    /\ v \notin DOMAIN cooperation_cooldowns

\* the arrival of v has been processed by _handle_subscriptions: v has left
\* the simulation, and either the update_vehicle_states call that read the
\* arrival has returned or the arrival is older than the last engine step
ArrivalProcessed(v) ==
    /\ veh_kin[v].phase = "arrived"
    /\ pc = "sim" \/ v \notin sim_results.arrived

\* C14: once _handle_subscriptions has processed the arrival of a vehicle,
\* the vehicle is in none of subscribed_vehicles, controlled_veh_ids,
\* cav_dissatisfaction_memory, cav_cdl_distance_memory and
\* cooperation_cooldowns, in that tick and in every later one; and when
\* update_vehicle_states has returned, the keys of the three memory maps are
\* subscribed vehicles
C14_ArrivedVehicleForgotten ==
    /\ \A v \in Vehicles : ArrivalProcessed(v) => Forgotten(v)
    /\ pc = "sim" =>
          /\ DOMAIN cav_dissatisfaction_memory \subseteq subscribed_vehicles
          /\ DOMAIN cav_cdl_distance_memory \subseteq subscribed_vehicles
          /\ DOMAIN cooperation_cooldowns \subseteq subscribed_vehicles

\* the tick that read the arrival of the CAV has returned: the CAV is in none
\* of the five collections, while an HV that is still on the road is
\* subscribed and controlled
C14_Witness ==
    /\ pc = "sim"
    /\ "cav_1" \in sim_results.arrived
    /\ Forgotten("cav_1")
    /\ InSimulation("hv_1")
    /\ "hv_1" \in subscribed_vehicles
    /\ "hv_1" \in controlled_veh_ids

\* the state the clean-up starts from: the arriving CAV is in all five
\* collections when update_vehicle_states is called
C14_ArrivingWithEntries ==
    /\ pc = "update"
    /\ "cav_1" \in sim_results.arrived
    /\ "cav_1" \in subscribed_vehicles
    /\ "cav_1" \in controlled_veh_ids
    /\ "cav_1" \in DOMAIN cav_dissatisfaction_memory
    /\ "cav_1" \in DOMAIN cav_cdl_distance_memory
    /\ "cav_1" \in DOMAIN cooperation_cooldowns

(* Properties of calculate_2d_ttc *)

\* calculate_2d_ttc has returned from a call with two well-formed state
\* tuples
TTCReturned == ttc_result # <<>>
TTCWellFormed == Len(ttc_args[1]) = 6 /\ Len(ttc_args[2]) = 6

\* the displacement of j from i along the heading of i and across it, and
\* the velocity of j relative to i along and across it (dm, dm/s)
AlongHeading == _get_relative_kinematics(ttc_args[1], ttc_args[2]).s_t
AcrossHeading == _get_relative_kinematics(ttc_args[1], ttc_args[2]).s_l
VelocityAlong == _get_relative_kinematics(ttc_args[1], ttc_args[2]).v_t
VelocityAcross == _get_relative_kinematics(ttc_args[1], ttc_args[2]).v_l

\* the footprints overlap on the longitudinal axis of the ego vehicle (measured
\* against its length) and on its lateral axis (against its width)
OverlapLongitudinal == Abs(AlongHeading) < ttc_args[1][5]
OverlapLateral == Abs(AcrossHeading) < ttc_args[1][6]

\* the pair closes on an axis: displacement and relative velocity have
\* opposite signs and the velocity is above the epsilon of 0.01 m/s
Closing(s, v) == s * v < 0 /\ 10 * Abs(v) > 1

\* C15: calculate_2d_ttc returns 0 for every pair whose footprints overlap on
\* the ego-longitudinal axis (against the length) and on the ego-lateral axis
\* (against the width), whatever the speeds
C15_OverlapGivesZero ==
    (TTCReturned /\ TTCWellFormed /\ OverlapLongitudinal /\ OverlapLateral)
        => ttc_result[1] = Zero

\* C16: calculate_2d_ttc returns +inf for a pair with zero relative velocity
\* whose footprints are separated along the heading by more than the length
\* or across it by more than the width
C16_RestingApartGivesInf ==
    (/\ TTCReturned /\ TTCWellFormed
     /\ VelocityAlong = 0 /\ VelocityAcross = 0
     /\ \/ Abs(AlongHeading) > ttc_args[1][5]
        \/ Abs(AcrossHeading) > ttc_args[1][6])
        => ttc_result[1] = Inf

\* C17: an axis contributes a finite time only when the pair closes on it, and
\* a pair that closes on no axis and does not overlap on both gets +inf
C17_FiniteOnlyWhenClosing ==
    (TTCReturned /\ TTCWellFormed) =>
        /\ AxisTTC(AlongHeading, VelocityAlong, ttc_args[1][5]) # Inf
              => Closing(AlongHeading, VelocityAlong)
        /\ AxisTTC(AcrossHeading, VelocityAcross, ttc_args[1][6]) # Inf
              => Closing(AcrossHeading, VelocityAcross)
        /\ (/\ ~Closing(AlongHeading, VelocityAlong)
            /\ ~Closing(AcrossHeading, VelocityAcross)
            /\ ~(OverlapLongitudinal /\ OverlapLateral))
              => ttc_result[1] = Inf

\* C18: calculate_2d_ttc returns a value for every input: +inf for a state
\* tuple of a wrong length, and for a pair with zero relative velocity 0 when
\* the footprints overlap on both axes and +inf otherwise
C18_DegenerateInputs ==
    TTCReturned =>
        /\ ~TTCWellFormed => ttc_result[1] = Inf
        /\ (TTCWellFormed /\ VelocityAlong = 0 /\ VelocityAcross = 0)
              => ttc_result[1] = IF OverlapLongitudinal /\ OverlapLateral
                                 THEN Zero ELSE Inf

(* Properties of the run loop under a TraCI error *)

\* C20: once the engine has raised a TraCI error in the run loop, no further
\* call is made (no step(), no arbitration call, no engine advance, no
\* retry), and when the run has ended the connection was closed exactly once
C20_AbortsAtFirstError ==
    /\ run_log.raised > 0 => run_log.late = {} /\ run_log.raised = 1
    /\ pc = "done" => run_log.closes = 1

(* Properties of the decision cycle *)

\* this step is the update_vehicle_states call of an iteration of step()
IsEnvUpdate == pc = "env_loop" /\ pc' = "env_lm"

\* the zone sets of the policy stored by the most recent apply_lane_strategy
PolicyHml == SegmentLanes(current_r, current_r + current_n)
PolicyCdl == SegmentLanes(current_r + current_n,
                          current_r + current_n + current_m)

\* C19: in every decision cycle the policy is applied and the zone sets are
\* those of that policy before a vehicle is arbitrated: every call of
\* update_vehicle_states is made after the apply_lane_strategy of its cycle,
\* with hml_lanes and cdl_lanes the sets of the policy that call stored, and
\* it arbitrates exactly the vehicles on those lanes
C19_UpdateGetsZonesOfLatestPolicy ==
    [][IsEnvUpdate =>
          /\ env_clock.cycle > 0
          /\ hml_lanes = PolicyHml
          /\ cdl_lanes = PolicyCdl
          /\ controlled_veh_ids' =
                {v \in subscribed_vehicles' :
                    InSimulation(v) /\ veh_lane[v] \in PolicyHml \cup PolicyCdl}]_vars

\* the run loop of main.py: every call of update_vehicle_states is made with
\* the zone sets of the fixed policy applied before the loop
C19_MainUpdateGetsZonesOfFixedPolicy ==
    [][IsUpdate =>
          /\ current_m = FIXED_POLICY_M /\ current_n = FIXED_POLICY_N
          /\ hml_lanes = PolicyHml
          /\ cdl_lanes = PolicyCdl]_vars

\* the second cycle runs under the policy (0, 10): update_vehicle_states has
\* returned, and the HV on segment 7, a CDL lane under (5, 5), is controlled
\* as a vehicle on an HML lane
C19_Witness ==
    /\ pc = "env_lm"
    /\ env_clock.cycle = 2
    /\ current_m = 0
    /\ current_n = 10
    /\ veh_lane["hv_1"] = <<7, 0>>
    /\ veh_lane["hv_1"] \in hml_lanes
    /\ "hv_1" \in controlled_veh_ids
    /\ InSimulation("cav_1")
    /\ "cav_1" \notin controlled_veh_ids


----------------------------------------------------------------------------
(* Properties of the cooperation negotiator *)

\* what the safety check of the update_vehicle_states call that starts in
\* this state finds for v
TickSafety(v) ==
    _assess_lane_change_safety_2D_TTC(v, TickData[v],
        TickMotivation(v).direction, hml_lanes, TickData)

\* manage_dcdl_lane_changing reaches attempt_lane_change_cooperation for v in
\* that call
NegotiatorInvoked(v) ==
    /\ v \in DOMAIN TickData
    /\ TickData[v].VAR_LANE_ID \in hml_lanes \cup cdl_lanes \cup middle_lanes
    /\ TickMotivation(v).prob_lc = One
    /\ TickMotivation(v).coop_request = One
    /\ TickMotivation(v).target_lane_index # -1
    /\ ~TickSafety(v).is_safe

\* the neighbour and the action the negotiator selects for ego v
TickSelection(v) ==
    CoopSelection([tp |-> TickSafety(v).tp, tf |-> TickSafety(v).tf], TickData)

\* the cooldown of f as the negotiator reads it, after the decrement that
\* opens the tick
TickCooldown(f) ==
    Get(_tick_cooperation_cooldowns(_handle_subscriptions(sim_results).cool),
        f, 0)

\* the negotiator has selected f for deceleration on behalf of ego, f is not
\* cooling down and passes the safety proxy
DecelSelected(ego, f) ==
    /\ NegotiatorInvoked(ego)
    /\ TickSelection(ego).coop_action = "decel"
    /\ TickSelection(ego).coop_target_id = f
    /\ f \in DOMAIN TickData
    /\ TickCooldown(f) = 0
    /\ _check_cooperation_safety_proxy(f, TickData[f])

\* C21 as stated: when the negotiator has selected the target-lane follower
\* for deceleration (predecessor slot empty or predecessor not a CAV, the
\* follower a CAV with cooldown zero) and the follower passes the safety
\* proxy, a negative acceleration of magnitude at most 0.6 x its rated decel
\* is commanded to it and its cooldown is set
C21_DecelCommandIssued ==
    [][IsUpdate =>
        \A ego, f \in Vehicles :
           DecelSelected(ego, f) =>
              /\ \E c \in CoopCommandsTo(f)' :
                    /\ RLt(c.accel, Zero)
                    /\ RLe(RSub(Zero, c.accel),
                           RMul(Num(vtype_cache[TickData[f].VAR_TYPE].decel),
                                Frac(6, 10)))
              /\ f \in DOMAIN cooperation_cooldowns'
              /\ cooperation_cooldowns'[f] = _COOP_COOLDOWN_STEPS]_vars

\* no deceleration is ever commanded, under SpecCoop and under SpecVeh
C21_NoNegativeCommand ==
    \A c \in accel_commands : ~RLt(c.accel, Zero)


----------------------------------------------------------------------------
(* Properties of the safety check and of the commands it allows *)

\* v is an HV on an HML lane: the mandatory exit the flexible threshold is for
HvLeavingHml(v) ==
    /\ InSimulation(v)
    /\ VehicleTypeId[v] = HvTypeId
    /\ veh_lane[v] \in hml_lanes

\* C22 as stated: the TTC threshold applied to an HV that has to leave an HML
\* lane is strictly smaller than the one applied to any other vehicle and
\* lane
C22_HvExitThresholdLooser ==
    pc = "sim" =>
       \A v, w \in Vehicles :
          (HvLeavingHml(v) /\ InSimulation(w) /\ ~HvLeavingHml(w)) =>
             RLt(TickAssessment(v).threshold, TickAssessment(w).threshold)

\* every safety check compares with the same threshold
C22_OneThreshold ==
    pc = "sim" =>
       \A v \in Vehicles :
          InSimulation(v) =>
             TickAssessment(v).threshold = Num(TTC_2D_THRESHOLD_S)


\* v is not in the snapshot of the tick that starts in this state, or not on
\* an HML, a CDL or a middle lane, or _get_lane_change_motivation returns
\* probability 0 or a target lane the segment does not have for it
NotMotivated(v) ==
    \/ v \notin DOMAIN TickData
    \/ TickData[v].VAR_LANE_ID \notin hml_lanes \cup cdl_lanes \cup middle_lanes
    \/ TickMotivation(v).prob_lc = Zero
    \/ TickMotivation(v).target_lane_index \notin 0..(LaneNumber - 1)

CoopCommandsFor(v) == {c \in accel_commands : c.ego = v}

\* C24: in one tick a cooperation command is negotiated on behalf of a
\* vehicle only if its safety check failed with motivation and cooperation
\* request both 1.0, no vehicle has a changeLane and a cooperation command on
\* its behalf in the same tick, and a vehicle whose safety check failed has no
\* changeLane
C24_CooperationOnlyAfterFailedCheck ==
    [][IsUpdate =>
        \A v \in Vehicles :
           /\ CoopCommandsFor(v)' # {} =>
                 /\ v \in DOMAIN TickData
                 /\ ~TickSafety(v).is_safe
                 /\ TickMotivation(v).prob_lc = One
                 /\ TickMotivation(v).coop_request = One
           /\ ~(HasLaneChangeCommand(v)' /\ CoopCommandsFor(v)' # {})
           /\ HasLaneChangeCommand(v)' =>
                 (v \in DOMAIN TickData /\ TickSafety(v).is_safe)]_vars

\* the negotiator has sent a command on behalf of an HV whose change was
\* unsafe and that has no changeLane, while the other HV, whose change was
\* safe, has one
C24_Witness ==
    /\ pc = "sim"
    /\ CoopCommandsFor("hv_1") # {}
    /\ ~TickAssessment("hv_1").is_safe
    /\ ~HasLaneChangeCommand("hv_1")
    /\ HasLaneChangeCommand("hv_2")
    /\ TickAssessment("hv_2").is_safe


----------------------------------------------------------------------------
(* Properties of attempt_lane_change_cooperation, called directly *)

\* this step is the call
IsNegCall == pc = "neg" /\ pc' = "neg_done"

\* the two slots of the call, and whether the vehicle in each is a CAV
NegTp == coop_call.gaps.tp
NegTf == coop_call.gaps.tf
NegTpIsCav == IsCavInData(NegTp, coop_call.data)
NegTfIsCav == IsCavInData(NegTf, coop_call.data)

\* the neighbour and the action the call selects
NegSelection == CoopSelection(coop_call.gaps, coop_call.data)

\* the selected neighbour is not cooling down, passes the safety proxy and
\* has more than 1.2 times its safe distance to its leader
NegTargetFree(n) ==
    /\ n \in DOMAIN coop_call.data
    /\ Get(cooperation_cooldowns, n, 0) = 0
    /\ \/ coop_call.data[n].VAR_LEADER = NoLeader
       \/ RLt(RMul(SafeDistance(coop_call.data[n]), Frac(12, 10)),
              Num(coop_call.data[n].VAR_LEADER[2]))

\* C25: one call selects at most one neighbour, and only a CAV: the follower
\* to decelerate when the predecessor slot is empty and the follower is a
\* CAV, the predecessor to accelerate when the follower slot is empty and the
\* predecessor is a CAV; with both slots filled the CAV predecessor before
\* the CAV follower; with no CAV neighbour nobody is selected, no command is
\* sent and no cooldown is set.  Commands go to the selected neighbour only,
\* and a selected predecessor that is free to accelerate gets one
C25_SelectsOneCavNeighbour ==
    [][IsNegCall =>
        /\ NegSelection.coop_target_id \in {NoVeh, NegTp, NegTf}
        /\ NegSelection.coop_target_id # NoVeh =>
              IsCavInData(NegSelection.coop_target_id, coop_call.data)
        /\ (NegTp = NoVeh /\ NegTfIsCav) =>
              NegSelection = [coop_target_id |-> NegTf, coop_action |-> "decel"]
        /\ (NegTf = NoVeh /\ NegTpIsCav) =>
              NegSelection = [coop_target_id |-> NegTp, coop_action |-> "accel"]
        /\ (NegTp # NoVeh /\ NegTf # NoVeh /\ NegTpIsCav) =>
              NegSelection = [coop_target_id |-> NegTp, coop_action |-> "accel"]
        /\ (NegTp # NoVeh /\ NegTf # NoVeh /\ ~NegTpIsCav /\ NegTfIsCav) =>
              NegSelection = [coop_target_id |-> NegTf, coop_action |-> "decel"]
        /\ (~NegTpIsCav /\ ~NegTfIsCav) =>
              /\ NegSelection.coop_target_id = NoVeh
              /\ accel_commands' = {}
              /\ cooperation_cooldowns' = cooperation_cooldowns
        /\ Cardinality(accel_commands') <= 1
        /\ \A c \in accel_commands' :
              c.target = NegSelection.coop_target_id /\ c.ego = NegEgo
        /\ (NegSelection.coop_action = "accel"
               /\ NegTargetFree(NegSelection.coop_target_id)) =>
              \E c \in accel_commands' : c.target = NegTp]_vars

\* both slots hold a CAV and the predecessor has been told to accelerate
C25_Witness ==
    /\ pc = "neg_done"
    /\ NegTp # NoVeh /\ NegTf # NoVeh
    /\ NegTpIsCav /\ NegTfIsCav
    /\ \E c \in accel_commands : c.target = NegTp /\ RLt(Zero, c.accel)
    /\ NegTf \notin DOMAIN cooperation_cooldowns


\* the rated acceleration and deceleration of the type of neighbour n
NegRated(n) == vtype_cache[coop_call.data[n].VAR_TYPE]

\* the call has set the cooldown of n
NegCooldownSet(n) ==
    /\ Get(cooperation_cooldowns, n, 0) = 0
    /\ Get(cooperation_cooldowns', n, 0) = _COOP_COOLDOWN_STEPS

\* a command of the accel branch: strictly positive, at most 0.5 x the rated
\* acceleration; and one of the decel branch: strictly negative, at most
\* 0.6 x the rated deceleration in magnitude
AccelBounded(c, type_params) ==
    RLt(Zero, c.accel) /\ RLe(c.accel, RMul(Num(type_params.accel), Frac(1, 2)))
DecelBounded(c, type_params) ==
    /\ RLt(c.accel, Zero)
    /\ RLe(RSub(Zero, c.accel), RMul(Num(type_params.decel), Frac(6, 10)))

\* what the decel branch sends to n for a gap to its leader, entered without
\* the safety proxy before it
DecelBranchCommands(n, gap) ==
    CoopCommand([dmem |-> <<>>, cdlmem |-> <<>>, cool |-> <<>>, lc |-> {},
                 acc |-> {}],
                NegEgo, n, "decel", NegRated(n), gap,
                SafeDistance(coop_call.data[n]),
                RMax(SIM_STEP_S, Frac(1, 10))).acc

\* C26: every setAcceleration of the negotiator lasts 5 simulation steps; one
\* sent to accelerate is strictly positive and at most 0.5 x the target's
\* rated acceleration, one sent to decelerate is strictly negative and at
\* most 0.6 x its rated deceleration in magnitude (also for the gaps below the
\* safe distance, which the decel branch is entered with only if the safety
\* proxy is left out); and the cooldown of a neighbour is set by the call if
\* and only if the call has sent it a command
C26_OverridesBounded ==
    [][IsNegCall =>
        /\ \A c \in accel_commands' :
              /\ c.target \in DOMAIN coop_call.data
              /\ c.duration = RMul(SIM_STEP_S, Num(5))
              /\ NegSelection.coop_action \in {"accel", "decel"}
              /\ NegSelection.coop_action = "accel" =>
                    AccelBounded(c, NegRated(c.target))
              /\ NegSelection.coop_action = "decel" =>
                    DecelBounded(c, NegRated(c.target))
        /\ \A n \in {NegPredecessor, NegFollower} :
              NegCooldownSet(n) <=> (\E c \in accel_commands' : c.target = n)
        /\ \A n \in DOMAIN coop_call.data :
              \A c \in DecelBranchCommands(n, Num(123))
                          \cup DecelBranchCommands(n, Num(100)) :
                 DecelBounded(c, NegRated(n))]_vars

\* the commands of the run loop are bounded in the same way
C26_RunOverridesBounded ==
    \A c \in accel_commands :
       /\ c.duration = RMul(SIM_STEP_S, Num(5))
       /\ AccelBounded(c, vtype_cache[VehicleTypeId[c.target]])

\* a CAV predecessor with 2.6 m more than its safe distance to its leader has
\* been told to accelerate with 1.3 m/s2 for 0.5 s and is cooling down; the
\* decel branch would answer a gap 0.2 m short of the safe distance with
\* -2.0 m/s2
C26_Witness ==
    /\ pc = "neg_done"
    /\ NegTp \in DOMAIN coop_call.data
    /\ coop_call.data[NegTp].VAR_SPEED = 100
    /\ coop_call.data[NegTp].VAR_LEADER = <<"lead", 151>>
    /\ accel_commands = {[target |-> NegTp, ego |-> NegEgo,
                          accel |-> Num(13), duration |-> Frac(1, 2)]}
    /\ cooperation_cooldowns = [v \in {NegTp} |-> _COOP_COOLDOWN_STEPS]
    /\ \E c \in DecelBranchCommands(NegTp, Num(123)) : c.accel = Num(-20)


----------------------------------------------------------------------------
(* Properties of the Bernoulli gate *)

\* both runs have made tick k
BothMade(k) == k <= Len(gate_runs[1].ticks) /\ k <= Len(gate_runs[2].ticks)

\* in tick k the two runs drew the same sample for every vehicle and sent the
\* same changeLane commands
SameDraws(k) ==
    /\ gate_runs[1].ticks[k].sample = gate_runs[2].ticks[k].sample
    /\ gate_runs[1].ticks[k].lc = gate_runs[2].ticks[k].lc

\* C27 as stated: with the fixed seed and the same observations, two runs
\* draw the same sample for the same vehicle in the same tick and send the
\* same commands, in whatever order each iterates the controlled vehicles
C27_SameDrawsInAnyOrder ==
    pc = "gate" => \A k \in 1..MaxGateTicks : BothMade(k) => SameDraws(k)

\* two runs that iterate in the same order up to a tick agree up to it
C27_SameDrawsInSameOrder ==
    pc = "gate" =>
       \A k \in 1..MaxGateTicks :
          (BothMade(k) /\ \A j \in 1..k : gate_runs[1].ticks[j].order
                                             = gate_runs[2].ticks[j].order)
             => SameDraws(k)


----------------------------------------------------------------------------
(* Properties of the CAV motivation *)

\* v is a CAV that the tick starting in this state evaluates with
\* _calculate_cav_hml_motivation alone: on an HML lane or on a middle lane
EvaluatedOnHml(v) ==
    /\ EvaluatedCav(v)
    /\ TickData[v].VAR_LANE_ID \in hml_lanes \cup middle_lanes

\* current_total_d and speed_gain of that evaluation
TickTotal(v) ==
    RAdd(Accumulated(cav_dissatisfaction_memory, v),
         Dissatisfaction(TickData[v].VAR_SPEED, TickData[v].VAR_ALLOWED_SPEED))
TickSpeedGain(v) ==
    _get_speed_gain(v, TickData[v], TickData[v].VAR_LANE_INDEX + 1, TickData)

\* speed_gain / SPEED_DIFF_THRESHOLD_MS clamped to [0, 1]
GainRatio(speed_gain) ==
    RMax(Zero, RMin(One, RDiv(speed_gain, Num(Dm(SPEED_DIFF_THRESHOLD_MS)))))

\* the evaluation of v: full motivation with the accumulator reset when
\* "full" holds, else the clamped ratio with the accumulator kept, and
\* motivation 0 while the accumulator is not past the threshold
MotivationFollows(v, full) ==
    IF RLt(Num(CUMULATIVE_DISSATISFACTION_S), TickTotal(v))
    THEN IF full
         THEN /\ TickMotivation(v).prob_lc = One
              /\ Accumulated(cav_dissatisfaction_memory', v) = Zero
         ELSE /\ TickMotivation(v).prob_lc = GainRatio(TickSpeedGain(v))
              /\ Accumulated(cav_dissatisfaction_memory', v) = TickTotal(v)
    ELSE TickMotivation(v).prob_lc = Zero

\* C28 as stated: past the dissatisfaction threshold the motivation is 1.0
\* and the accumulator is reset if speed_gain exceeds the speed-gain
\* threshold; otherwise it is speed_gain / threshold clamped to [0, 1] and the
\* accumulator keeps its value; not past the threshold the motivation is 0
C28_FullMotivationAboveGainThreshold ==
    [][IsUpdate =>
        \A v \in Vehicles :
           EvaluatedOnHml(v) =>
              MotivationFollows(v, RLt(Num(Dm(SPEED_DIFF_THRESHOLD_MS)),
                                       TickSpeedGain(v)))]_vars

\* C28 as amended: the same with the full motivation and the reset from a
\* speed_gain equal to the speed-gain threshold on
C28_FullMotivationFromGainThreshold ==
    [][IsUpdate =>
        \A v \in Vehicles :
           EvaluatedOnHml(v) =>
              MotivationFollows(v, RLe(Num(Dm(SPEED_DIFF_THRESHOLD_MS)),
                                       TickSpeedGain(v)))]_vars

\* the standing CAV was evaluated with 4.1 s accumulated and the HV ahead on
\* the target lane at 3 m/s, a speed gain of exactly the threshold: its
\* accumulator is back at zero
C28_Witness ==
    /\ pc = "sim"
    /\ veh_lane["cav_1"] \in hml_lanes
    /\ veh_kin["cav_1"].speed = 0
    /\ veh_kin["hv_1"].speed = Dm(SPEED_DIFF_THRESHOLD_MS)
    /\ TickAssessment("cav_1").tp = "hv_1"
    /\ "cav_1" \in DOMAIN cav_dissatisfaction_memory
    /\ cav_dissatisfaction_memory["cav_1"] = Zero


\* this step is one evaluation of _get_lane_change_motivation of V1.6
IsMotEvalV16 == pc = "mot" /\ version = "V1.6" /\ mot_count' = mot_count + 1

\* all_veh_data of the evaluation
MotData == SubscriptionResults(subscribed_vehicles)

\* v is a CAV on a CDL lane
CavOnCdl(v) ==
    /\ v \in DOMAIN MotData
    /\ ~StartsWith(MotData[v].VAR_TYPE, HvTypeId)
    /\ MotData[v].VAR_LANE_ID \in cdl_lanes
    /\ MotData[v].VAR_LANE_ID \notin middle_lanes

\* the distance v has travelled inside the dedicated zone: whole segments
\* from the first CDL segment on, and the position on its own
ZoneDistance(v) ==
    (edge_to_order[MotData[v].VAR_ROAD_ID] - edge_to_order[get_cdl_start_edge])
        * Dm(SCL_LENGTH_M) + MotData[v].VAR_LANEPOSITION

\* |CDL| x segment length - stop-bar threshold
ZoneLength ==
    Cardinality(cdl_lanes) * Dm(SCL_LENGTH_M) - Dm(STOPPING_DISTANCE_THRESHOLD_M)

\* prob_eff of the evaluation of v
ProbEff(v) ==
    _calculate_cav_hml_motivation(v, MotData[v], MotData[v].VAR_LANE_INDEX + 1,
                                  cav_dissatisfaction_memory, MotData).prob

ProbSafeOfZone(v) ==
    IF ZoneDistance(v) >= ZoneLength THEN One
    ELSE RDiv(Num(ZoneDistance(v)), Num(ZoneLength))

\* C29: for a CAV on a CDL lane _get_lane_change_motivation returns
\* 1 - (1 - prob_eff)(1 - prob_safe), with prob_safe = 1 from a distance of
\* |CDL| x segment length - stop-bar threshold inside the zone on and the
\* distance over that length before; the value lies in [0, 1], also for a
\* zone shorter than the stop-bar threshold; and the cooperation request is
\* 1.0 exactly when the value is 1.0
C29_CdlMotivationIsProbTotal ==
    [][IsMotEvalV16 =>
        \A v \in Vehicles :
           (CavOnCdl(v) /\ mot_out'.veh = v) =>
              /\ mot_out'.prob_lc =
                    RSub(One, RMul(RSub(One, ProbEff(v)),
                                   RSub(One, ProbSafeOfZone(v))))
              /\ RLe(Zero, mot_out'.prob_lc) /\ RLe(mot_out'.prob_lc, One)
              /\ RLe(Zero, ProbSafeOfZone(v)) /\ RLe(ProbSafeOfZone(v), One)
              /\ mot_out'.coop_request \in {Zero, One}
              /\ mot_out'.coop_request = One <=> mot_out'.prob_lc = One]_vars

\* the CAV was evaluated 60 m into a zone of one segment, 50 m shorter than
\* the stop-bar threshold, with nothing accumulated: probability 1.0 and a
\* cooperation request
C29_Witness ==
    /\ pc = "mot"
    /\ version = "V1.6"
    /\ mot_count = 1
    /\ mot_out.veh = "cav_1"
    /\ veh_lane["cav_1"] = <<11, 0>>
    /\ cdl_lanes = {<<11, 0>>}
    /\ ZoneLength < 0
    /\ cav_dissatisfaction_memory = [v \in {"cav_1"} |-> Frac(1, 15)]
    /\ mot_out.prob_lc = One
    /\ mot_out.coop_request = One

\* the CAV was evaluated 60 m into a zone of five segments, 750 m before
\* prob_safe reaches 1, with nothing accumulated: probability 0.08 and no
\* cooperation request
C29_PartialProbability ==
    /\ pc = "mot"
    /\ version = "V1.6"
    /\ mot_count = 1
    /\ mot_out.veh = "cav_1"
    /\ veh_lane["cav_1"] = <<7, 0>>
    /\ Cardinality(cdl_lanes) = 5
    /\ mot_out.prob_lc = Frac(600, 7500)
    /\ mot_out.coop_request = Zero

----------------------------------------------------------------------------
(* Properties of step() in the episodes of the environment *)

\* the class of a lane, out of the sets of the LaneManager
LaneClassOf(l) ==
    IF l \in hcl_lanes THEN "Clearing"
    ELSE IF l \in cdl_lanes THEN "Dedicated"
    ELSE IF l \in hml_lanes THEN "HML"
    ELSE "Open"

\* the transition is the call self.lane_manager.step() of DCDLEnv.step
IsEnvLaneStep == pc = "env_lm" /\ pc' = "env_sim"

\* the transition is the call of apply_lane_strategy of DCDLEnv.step
IsEnvApply == pc = "env_idle" /\ pc' = "env_loop"

----------------------------------------------------------------------------
(* Properties of the lane-change mode and of the order of the calls *)

\* the transition is the call of update_vehicle_states of V1 main.py
IsUpdateV1 == pc = "v1_update" /\ pc' = "v1_sim"

\* the lanes whose vehicles the running controller takes: V1 is given the HML
\* and the CDL lanes, V1.6 the middle lanes as well
ControlledLaneSet ==
    IF pc \in {"v1_sim", "v1_lm", "v1_update"}
    THEN hml_lanes \cup cdl_lanes
    ELSE hml_lanes \cup cdl_lanes \cup middle_lanes

\* the mode in which the running controller takes a vehicle
ExternalMode ==
    IF pc \in {"v1_sim", "v1_lm", "v1_update"} THEN _TRACI_LC_MODE_V1
                                               ELSE _TRACI_LC_MODE

\* the vehicles the controller has subscribed to and the engine still runs
Tracked ==
    {v \in subscribed_vehicles : veh_kin[v].phase = "running"}

\* C31: in a call of update_vehicle_states a tracked vehicle that the call
\* finds on a controlled lane and that was not controlled before has its
\* lane-change mode set to the _TRACI_LC_MODE of the controller, a controlled
\* vehicle that is still
\* tracked and no longer on a controlled lane has it set back to
\* _SUMO_DEFAULT_LC_MODE, and the call leaves in controlled_veh_ids exactly
\* the tracked vehicles on controlled lanes
C31_ModeFollowsControlledSet ==
    [][(IsUpdate \/ IsUpdateV1) =>
        /\ \A v \in Tracked' :
              /\ (veh_lane[v] \in ControlledLaneSet /\ v \notin controlled_veh_ids)
                    => lane_change_mode'[v] = ExternalMode
              /\ (veh_lane[v] \notin ControlledLaneSet /\ v \in controlled_veh_ids)
                    => lane_change_mode'[v] = _SUMO_DEFAULT_LC_MODE
        /\ controlled_veh_ids' =
              {v \in Tracked' : veh_lane[v] \in ControlledLaneSet}
      ]_vars

\* the controller of V1 leaves every vehicle in the mode of the engine
C31_V1NeverTakesControl ==
    pc \in {"v1_sim", "v1_lm", "v1_update"}
       => \A v \in Vehicles : lane_change_mode[v] = _SUMO_DEFAULT_LC_MODE

\* a vehicle is controlled by the controller of V1 and the engine still
\* changes its lane on its own
C31_V1ControlledInEngineMode ==
    /\ pc = "v1_sim"
    /\ \E v \in controlled_veh_ids : lane_change_mode[v] = _SUMO_DEFAULT_LC_MODE

\* the controller of V1.6 has taken a vehicle and given one back
C31_V16Switches ==
    /\ pc = "sim"
    /\ \E v \in controlled_veh_ids : lane_change_mode[v] = _TRACI_LC_MODE
    /\ \E v \in Tracked \ controlled_veh_ids :
          lane_change_mode[v] = _SUMO_DEFAULT_LC_MODE

\* the positions of the three run loops at which lane_manager.step(), the
\* call of update_vehicle_states and traci.simulationStep() come next
StepPoints == {"lm_step", "v1_lm", "env_lm"}
ArbiterPoints == {"update", "v1_update", "env_loop"}
AdvancePoints == {"sim", "v1_sim", "env_sim"}

\* the transition is a call of lane_manager.step() in a run loop
IsLaneStepCall == pc \in StepPoints /\ pc' \notin {pc, "done"}

\* the transition is a call of update_vehicle_states in a run loop
IsArbiterCall ==
    \/ pc \in {"update", "v1_update"} /\ pc' # pc
    \/ pc = "env_loop" /\ pc' = "env_lm"

\* the transition is a call of traci.simulationStep() in a run loop
IsEngineAdvance == pc \in AdvancePoints /\ pc' \notin {pc, "done"}

\* C32: in a run loop the engine advance is followed by lane_manager.step(),
\* step() by the call of update_vehicle_states, and that call by the next
\* engine advance (or by the end of the loop), so that between two engine
\* advances each of the two runs once, step() first
C32_StepThenArbiterEachTick ==
    [][/\ IsEngineAdvance => pc' \in StepPoints
       /\ IsLaneStepCall => pc' \in ArbiterPoints
       /\ IsArbiterCall => pc' \in AdvancePoints
      ]_vars

\* in DCDLEnv.step the call of update_vehicle_states is followed by
\* lane_manager.step() and step() by the engine advance, and the engine
\* advances only out of step(): each runs once per tick, the arbiter first
C32_EnvArbiterThenStep ==
    [][/\ IsArbiterCall => pc' = "env_lm"
       /\ IsLaneStepCall => pc' = "env_sim"
       /\ (pc' = "env_sim" /\ pc # "env_sim") => IsLaneStepCall
       /\ (pc' = "env_lm" /\ pc # "env_lm") => IsArbiterCall
      ]_vars

\* DCDLEnv.step has evaluated the vehicles and lane_manager.step() is still to
\* run: a lane is in hcl_lanes with no HV on it and a vehicle is controlled
C32_EnvEvaluatedBeforeClearance ==
    /\ pc = "env_lm"
    /\ controlled_veh_ids # {}
    /\ ClearedLanes # {}

----------------------------------------------------------------------------
(* Properties of _get_target_neighbors, called directly *)

\* a call of _get_target_neighbors has returned
IsNbrCall == nbr_out # <<>>

\* the lane index the call looks at
NbrTargetIndex == veh_lane[nbr_out.veh_id][2] + nbr_out.direction

\* the call has a target lane on a control segment
NbrInRange ==
    /\ NbrTargetIndex >= 0
    /\ NbrTargetIndex < LaneNumber
    /\ veh_lane[nbr_out.veh_id][1] \in DOMAIN edge_to_order

\* the other vehicles on the target lane index of the segment of the ego, of
\* the control segment before it and of the control segment after it
NbrOnTarget ==
    {u \in Vehicles \ {nbr_out.veh_id} :
        /\ InSimulation(u)
        /\ veh_lane[u][2] = NbrTargetIndex
        /\ veh_lane[u][1] \in DOMAIN edge_to_order
        /\ edge_to_order[veh_lane[u][1]]
              - edge_to_order[veh_lane[nbr_out.veh_id][1]] \in {-1, 0, 1}}

\* how far along the road vehicle u is ahead of the ego
NbrAhead(u) ==
    PositionX(veh_lane[u], veh_kin[u].pos)
       - PositionX(veh_lane[nbr_out.veh_id], veh_kin[nbr_out.veh_id].pos)

\* the nearest of the vehicles in front, and the nearest of those level with
\* the ego or behind it; None where there is none
NbrNearest(side) ==
    IF side = {} THEN NoVeh
    ELSE CHOOSE u \in side : \A w \in side : Abs(NbrAhead(u)) <= Abs(NbrAhead(w))

\* C33: _get_target_neighbors returns as predecessor the nearest vehicle in
\* front of the ego on the target lane, and as follower the nearest one level
\* with it or behind it, among the vehicles of the current segment and of the
\* control segments next to it; neither is the ego, the two differ, and both
\* are None when the target lane index is out of range or the ego is not on a
\* control segment
C33_NearestNeighboursAcrossSegments ==
    IsNbrCall =>
        /\ nbr_out.tp # nbr_out.veh_id /\ nbr_out.tf # nbr_out.veh_id
        /\ nbr_out.tp = nbr_out.tf => nbr_out.tp = NoVeh
        /\ ~NbrInRange => (nbr_out.tp = NoVeh /\ nbr_out.tf = NoVeh)
        /\ NbrInRange =>
              /\ nbr_out.tp = NbrNearest({u \in NbrOnTarget : NbrAhead(u) > 0})
              /\ nbr_out.tf = NbrNearest({u \in NbrOnTarget : NbrAhead(u) <= 0})

\* the predecessor returned stands on the next segment and the follower on
\* the one before, while a third vehicle is not the ego's neighbour
C33_Witness ==
    /\ IsNbrCall /\ NbrInRange
    /\ nbr_out.tp # NoVeh /\ nbr_out.tf # NoVeh
    /\ edge_to_order[veh_lane[nbr_out.tp][1]]
          = edge_to_order[veh_lane[nbr_out.veh_id][1]] + 1
    /\ edge_to_order[veh_lane[nbr_out.tf][1]]
          = edge_to_order[veh_lane[nbr_out.veh_id][1]] - 1

\* two vehicles are in front of the ego on the target lane and the nearer of
\* them is returned
C33_TwoAhead ==
    /\ IsNbrCall /\ NbrInRange
    /\ Cardinality({u \in NbrOnTarget : NbrAhead(u) > 0}) = 2
    /\ nbr_out.tp # NoVeh /\ nbr_out.tf = NoVeh

\* a vehicle level with the ego is returned as its follower
C33_LevelIsFollower ==
    /\ IsNbrCall /\ NbrInRange
    /\ nbr_out.tf # NoVeh
    /\ NbrAhead(nbr_out.tf) = 0

\* the call returns (None, None) with vehicles on the lanes next to the ego:
\* the ego is not on a control segment, or has no lane on that side
C33_NoneOutOfRange ==
    /\ IsNbrCall /\ ~NbrInRange
    /\ \E u \in Vehicles \ {nbr_out.veh_id} : InSimulation(u)

----------------------------------------------------------------------------
(* Properties of two apply_lane_strategy calls in succession *)

IsSecondApply == pc = "pair_between" /\ pc' = "pair_done"

\* C34: the second of two apply_lane_strategy calls in succession with the
\* same (m, n) leaves (r, n, m), hml_lanes, cdl_lanes and every lane permission
\* as the first call left them, and leaves hcl_lanes and hcl_clearance_map
\* empty, whatever HCL lanes still had an HV on them before it
C34_SecondApplyKeepsAllButHcl ==
    [][IsSecondApply
       => /\ UNCHANGED <<current_r, current_n, current_m>>
          /\ UNCHANGED <<hml_lanes, cdl_lanes, allowed>>
          /\ hcl_lanes' = {}
          /\ hcl_clearance_map' = <<>>]_vars

\* the second call was made while an HV stood on an HCL lane
C34_Witness ==
    /\ pc = "pair_done"
    /\ apply_pair.occupied # {}
    /\ hcl_lanes = {}
    /\ apply_pair.m > 0 /\ apply_pair.n > 0

\* the second call of an over-budget request
C34_OverBudgetTwice ==
    /\ pc = "pair_done"
    /\ apply_pair.m + apply_pair.n > TOTAL_SCL_COUNT
    /\ current_m + current_n = TOTAL_SCL_COUNT

IsBetweenApplies == pc = "pair_between" /\ pc' = "pair_between"

\* C35: between two consecutive apply_lane_strategy calls hcl_lanes only
\* shrinks: no step() call and no engine advance adds a lane to it, so a lane
\* taken out does not come back, even when an HV stands on it later
C35_HclOnlyShrinksBetweenApplies ==
    [][IsBetweenApplies
       => /\ hcl_lanes' \subseteq hcl_lanes
          /\ hcl_lanes' \cap apply_pair'.removed = {}]_vars

\* step() ran with an HV on a lane it had taken out of hcl_lanes before
C35_Witness ==
    /\ pc = "pair_between"
    /\ last_op.op = "step"
    /\ \E l \in apply_pair.removed : HasHV(l) /\ l \in cdl_lanes
    /\ hcl_lanes \cap apply_pair.removed = {}

----------------------------------------------------------------------------
(* Properties of the cooperation cooldown over the ticks of the run loop *)

\* the counter of vehicle v as update_vehicle_states finds it; 0 for none
CooldownOf(v) ==
    IF v \in DOMAIN cooperation_cooldowns THEN cooperation_cooldowns[v] ELSE 0

\* the tick begins with v still tracked
StaysTracked(v) == v \notin sim_results.arrived

\* C36: a vehicle commanded to cooperate in tick t is not commanded again in
\* tick t, nor in the ticks t+1 .. t+_COOP_COOLDOWN_STEPS-1, and can be
\* commanded again in tick t+_COOP_COOLDOWN_STEPS.  In terms of the counter: a
\* command sets it to _COOP_COOLDOWN_STEPS and is the only one to the vehicle
\* in that tick; a tick that finds the counter above 1 sends the vehicle no
\* command and lowers the counter by one; a tick that finds it at 1 (the tick
\* t+_COOP_COOLDOWN_STEPS) or absent either commands the vehicle or leaves it
\* without a counter
C36_CooldownLastsExactly ==
    [][IsUpdate =>
        \A v \in Vehicles :
           /\ Cardinality(CoopCommandsTo(v)') <= 1
           /\ CoopCommandsTo(v)' # {}
                 => /\ CooldownOf(v) <= 1
                    /\ CooldownOf(v)' = _COOP_COOLDOWN_STEPS
           /\ (CooldownOf(v) > 1 /\ StaysTracked(v))
                 => /\ CoopCommandsTo(v)' = {}
                    /\ CooldownOf(v)' = CooldownOf(v) - 1
           /\ (CooldownOf(v) <= 1 /\ CoopCommandsTo(v)' = {})
                 => CooldownOf(v)' = 0]_vars

\* the last tick of the cooldown (tick t+_COOP_COOLDOWN_STEPS-1) is over: the
\* counter of the CAV stands at 1, an HV on a restricted lane found its lane
\* change unsafe with that CAV as predecessor, and no command was sent
C36_Witness ==
    /\ pc = "sim"
    /\ CooldownOf("cav_1") = 1
    /\ accel_commands = {}
    /\ \E ego \in {"hv_1", "hv_2"} :
          /\ InSimulation(ego)
          /\ veh_lane[ego] \in cdl_lanes \cup hml_lanes
          /\ ~TickAssessment(ego).is_safe
          /\ TickAssessment(ego).tp = "cav_1"

\* no command is sent in the tick that finds the counter at 1 (refuted: the
\* vehicle is commanded again in tick t+_COOP_COOLDOWN_STEPS)
C36_NeverAgainAtOne ==
    [][(IsUpdate /\ CooldownOf("cav_1") = 1)
          => CoopCommandsTo("cav_1")' = {}]_vars

\* two egos picked the CAV in one tick and one command was sent
C36_TwoEgosOneCommand ==
    /\ pc = "sim"
    /\ Cardinality(CoopCommandsTo("cav_1")) = 1
    /\ \A ego \in {"hv_1", "hv_2"} :
          /\ InSimulation(ego)
          /\ veh_lane[ego] \in cdl_lanes \cup hml_lanes
          /\ ~TickAssessment(ego).is_safe
          /\ TickAssessment(ego).tp = "cav_1"

----------------------------------------------------------------------------
(* Properties of step() after the last apply_lane_strategy call *)

IsDrainStep == pc = "drain_step" /\ pc' = "drain_sim"

\* hcl_lanes (and hcl_clearance_map with it) becomes empty and stays empty
HclEventuallyEmptyForGood == <>[](hcl_lanes = {} /\ hcl_clearance_map = <<>>)

\* once hcl_lanes is empty step() changes no field of the LaneManager and no
\* lane permission
StepOnEmptyIsNoOp ==
    [][(IsDrainStep /\ hcl_lanes = {})
          => UNCHANGED <<current_m, current_n, current_r, hml_lanes, cdl_lanes,
                         hcl_lanes, middle_lanes, hcl_clearance_map,
                         allowed>>]_vars

\* C37: with no further apply_lane_strategy call, and every HCL lane found
\* without an HV by some later step(), hcl_lanes becomes empty and stays
\* empty, and from then on step() is a no-op
C37_HclDrainsAndStaysEmpty == HclEventuallyEmptyForGood /\ StepOnEmptyIsNoOp

\* the loop of SpecDrain without the assumption on the HVs
SpecDrainUnfair ==
    InitDrain /\ [][NextDrain]_vars
       /\ WF_vars(DrainLaneStep) /\ WF_vars(DrainSimulationStep)

\* step() has just taken the last lanes out of hcl_lanes
C37_Witness ==
    /\ pc = "drain_sim"
    /\ last_op.op = "step" /\ last_op.cleared
    /\ hcl_lanes = {}
    /\ cdl_lanes # {}

\* step() was called with hcl_lanes empty
C37_StepOnEmpty ==
    /\ pc = "drain_sim"
    /\ last_op.op = "step" /\ ~last_op.cleared
    /\ hcl_lanes = {}
    /\ \E v \in LaneTraffic : veh_lane[v] \in cdl_lanes

----------------------------------------------------------------------------
(* Properties of hcl_clearance_map *)

\* C39: between the calls of the LaneManager the keys of hcl_clearance_map are
\* the lanes of hcl_lanes, and each key is mapped to the id of the segment
\* whose controlled lane it is
C39_ClearanceMapMirrorsHclLanes ==
    /\ DOMAIN hcl_clearance_map = hcl_lanes
    /\ \A lane \in DOMAIN hcl_clearance_map :
          /\ hcl_clearance_map[lane] = lane[1]
          /\ lane = ControlledLane(edge_to_order[lane[1]])

\* step() took some lanes out and left others, which keep their entries
C39_Witness ==
    /\ last_op.op = "step" /\ last_op.cleared
    /\ hcl_lanes # {}
    /\ DOMAIN hcl_clearance_map = hcl_lanes

----------------------------------------------------------------------------
(* Properties of RewardCalculator.calculate_reward *)

\* C38: after calculate_reward, whatever was accumulated: norm_thr equals
\* norm_spd, so the reward is (alpha + beta) * norm_spd + gamma * norm_saf;
\* with no sample both terms are 0 and no division by zero occurs; and the
\* three accumulators are back at zero
C38_ThroughputTermIsSpeedTerm ==
    pc = "rew_calculated"
       => /\ ~rew_out.raised
          /\ rew_out.norm_thr = rew_out.norm_spd
          /\ rew_out.reward =
                RAdd(RMul(Num(REWARD_ALPHA + REWARD_BETA), rew_out.norm_spd),
                     RMul(Num(REWARD_GAMMA), rew_out.norm_saf))
          /\ rew_out.samples = 0
                => rew_out.norm_thr = Zero /\ rew_out.norm_spd = Zero
          /\ rew_acc = RewardReset

\* a reward calculated from several samples of different speeds, with the
\* safety term below its cap
C38_Witness ==
    /\ pc = "rew_calculated"
    /\ rew_out.samples = MaxRewardSamples
    /\ RLt(Zero, rew_out.norm_spd) /\ RLt(rew_out.norm_spd, One)
    /\ RLt(Zero, rew_out.norm_saf) /\ RLt(rew_out.norm_saf, One)

\* a reward calculated with no sample
C38_NoSample ==
    /\ pc = "rew_calculated"
    /\ rew_out.samples = 0
    /\ rew_out.reward = rew_out.norm_saf

====
